---- MODULE Spec2Model ----
(***************************************************************************)
(* A model of the smart channel (re_smart_channel::Sender and the Receiver *)
(* contract it is paired with) and of the bounded ingestion worker         *)
(* (re_viewer::ingestion_worker).                                          *)
(*                                                                         *)
(* Every Sender handle is used by one thread.  An operation that performs  *)
(* several atomic accesses (send_at_with_size: fetch_add, tx.send,         *)
(* fetch_sub) is one action per atomic access, with the thread's position  *)
(* kept in pc.  res holds what the call that completed in the last step    *)
(* returned, and nothing after any other step.  Variables marked "history" *)
(* record what happened and are read by the properties only.               *)
(***************************************************************************)
EXTENDS Integers, Sequences, FiniteSets, TLC

\* ------------------------------------------------------------- bounds
\* Sender handles that may exist (the first one plus clone_as results).
MaxSenders == 2
\* Largest payload size, and largest size argument, in bytes.
MaxSize == 1
\* Calls of send*, flush_blocking and quit over a whole behaviour.
MaxCalls == 3
\* The same budget under the fair specification of flush_blocking.
MaxFairCalls == 2
\* Largest measured size of a control (Flush / Quit) envelope.
MaxCtrl == 1
\* Latest Instant a caller of send_at can pass; Instant::now() is Now.
MaxTime == 1
\* Largest latency the Receiver can measure.
MaxElapsed == 1
\* Width of the model's queue_bytes counter (u64 in the source), in bits.
CounterBits == 3
\* Largest capacity of the worker's input queue the model builds.
MaxQueue == 2
\* Work items submitted over a whole behaviour.
MaxItems == 4

\* Views whose visualizable entities are cached.
MaxViews == 2
\* Latest generation of the recording's chunk store.
MaxGeneration == 1
\* Entities that a visualizer's subscriber can report as maybe visualizable.
MaxEntities == 2
\* Width of the model's subscriber fingerprint (u64 in the source), in bits.
FingerprintBits == 1
\* Latest time a LatestAtQuery asks for.
MaxAt == 1
\* Annotation maps loaded over a whole behaviour.
MaxLoads == 4

\* Threads that call flush_blocking, once each, in the model of its hand-off.
MaxFlushers == 2
\* Frames the performance panel records between two resets.
MaxFrames == 62
\* Largest value a counter of performance_metrics reaches.
MaxMetric == 1

\* Maximum number of pending work items before backpressure kicks in.
WORK_QUEUE_CAPACITY == 2000

\* PerformancePanel::WINDOW_SIZE: 60 frames = ~1 second at 60 FPS.
WINDOW_SIZE == 60

Modulus == 2 ^ CounterBits

Handles == 1..MaxSenders

\* SmartMessageSource: the provenance of an envelope.
Sources == {"File", "Net", "Unknown"}

VARIABLES
    \* ---- smart channel
    source,           \* source[s]: the provenance handle s carries; "none": no such handle
    refs,             \* refs[s]: the channel (tx) and the SharedStats (stats) handle s holds
    transport,        \* the crossbeam channel: a FIFO of envelopes
    rx_alive,         \* the Receiver exists
    queue_bytes,      \* SharedStats::queue_bytes
    latency_nanos,    \* SharedStats::latency_nanos
    pc,               \* pc[s]: where the thread using handle s stands
    pend,             \* pend[s]: the call in progress on handle s
    res,              \* what the call that completed in the last step returned
    rpc,              \* where the Receiver's drain stands
    hand,             \* the envelope the Receiver has dequeued and not yet handled
    debug_assertions, \* the build checks debug_assert!
    ctrl_bytes,       \* the measured size of a control envelope
    calls,            \* history: calls of send*, flush_blocking and quit so far
    enq_count,        \* history: envelopes placed on the transport so far
    drained,          \* history: the eids of the envelopes the Receiver has handled
    last_from,        \* history: last_from[s]: eid of the last envelope handled from s
    invoked,          \* history: invoked[e]: times the callback of Flush envelope e ran
    exact,            \* history: every envelope enqueued so far was tracked at its size
    quit_at,          \* history: quit_at[s]: enq_count + 1 when quit was first called on s, or 0
    net_bytes         \* history: sizes added by the sends that succeeded, less sizes subtracted
                      \* by the Receiver

chanVars == <<source, refs, transport, rx_alive, queue_bytes, latency_nanos, pc, pend, res,
              rpc, hand, debug_assertions, ctrl_bytes, calls, enq_count, drained,
              last_from, invoked, exact, quit_at, net_bytes>>

VARIABLES
    \* ---- ingestion worker
    handle_alive,     \* the IngestionWorker exists: input_tx and output_rx are held
    input_queue,      \* the bounded channel of work items
    output_queue,     \* the unbounded channel of processed chunks
    worker_pc,        \* where the worker thread stands
    work,             \* the work item, then the processed chunk, the worker holds
    sub_pc,           \* where the thread calling submit_arrow_msg_blocking stands
    sub_item,         \* the work item it is sending
    poll_pc,          \* where the thread calling poll_processed_chunks stands
    chunks,           \* the Vec being filled by poll_processed_chunks
    submitted,        \* history: work items submitted so far
    decoded,          \* history: the items the worker has finished (id, decode ok), in order
    polled,           \* history: the chunks returned by the polls so far, in order
    poll_seen,        \* history: the output queue as the poll in progress found it
    items             \* history: the work items submitted so far, in order

workerVars == <<handle_alive, input_queue, output_queue, worker_pc, work, sub_pc,
                sub_item, poll_pc, chunks, submitted, decoded, polled, poll_seen,
                items>>

VARIABLES
    \* ---- visualizable entities cache
    vis_cache,        \* VisualizableEntitiesCache::cache: the entries, each under its view id
    vis_ret           \* what the call of the cache that completed in the last step returned

visVars == <<vis_cache, vis_ret>>

VARIABLES
    \* ---- annotation map cache
    ann_cached,       \* AnnotationMapCache::cached: the entries, an Arc under a query each
    ann_arcs,         \* the annotation maps loaded, and Arcs made, so far
    ann_ret,          \* what the call of the cache that completed in the last step returned
    ann_given         \* history: for each query asked for since the last clear, the Arc
                      \* its last get returned

annVars == <<ann_cached, ann_arcs, ann_ret, ann_given>>

VARIABLES
    \* ---- performance panel
    panel,            \* the PerformancePanel: enabled, paused, frame_times, frame_start (set
                      \* or not), total_frames, metrics (bottleneck_metrics and cache_stats)
    perf_atomics,     \* the counters of performance_metrics
    panel_op,         \* the call on the panel made in the last step, if it was one
    panel_hist        \* history: pending: a begin_frame that was not ignored awaits its
                      \* end_frame; pairs_done: pairs completed since the last reset;
                      \* ignored: a begin_frame or end_frame found the panel paused or
                      \* not enabled

panelVars == <<panel, perf_atomics, panel_op, panel_hist>>

VARIABLES
    \* ---- flush_blocking's hand-off
    flusher,          \* flusher[f]: where thread f stands in flush_blocking (pc), and what
                      \* the call returned (ret)
    oneshot,          \* oneshot[f]: the rendezvous channel of f's call: where its tx end
                      \* is, and whether its rx end exists
    flush_queue,      \* the Flush envelopes on the transport: the thread of each
    receiver          \* the Receiver: it exists (alive); the thread whose callback it is
                      \* running (calling)

handoffVars == <<flusher, oneshot, flush_queue, receiver>>

viewerVars == <<visVars, annVars, panelVars, handoffVars>>

vars == <<chanVars, workerVars, viewerVars>>

\* What the calls of one viewer component leave alone.
exceptVis == <<chanVars, workerVars, annVars, panelVars, handoffVars>>

exceptAnn == <<chanVars, workerVars, visVars, panelVars, handoffVars>>

exceptPanel == <<chanVars, workerVars, visVars, annVars, handoffVars>>

exceptHandoff == <<chanVars, workerVars, visVars, annVars, panelVars>>

\* ------------------------------------------------------------ payloads
NoPayload == [kind |-> "None", val |-> 0]

\* SmartMessagePayload::Msg(msg): val stands for the message, and is its size.
MsgPayloads == {[kind |-> "Msg", val |-> v] : v \in 1..MaxSize}

\* SmartMessagePayload::Quit(err): val 0 is None, val 1 is Some(err).
QuitPayloads == {[kind |-> "Quit", val |-> e] : e \in 0..1}

FlushPayload == [kind |-> "Flush", val |-> 0]

\* invoked[e] of an envelope e that is no Flush envelope.
NotFlush == 0 - 1

\* What the callers of send_at / send_at_with_size / send_at_tracking forward:
\* a message, under the handle's own source or under Unknown.
ForwardPayloads == MsgPayloads

ForwardSources(s) == {source[s], "Unknown"}

\* The sources given to clone_as.
CloneSources == Sources

\* SizeBytes::total_size_bytes of the envelope carrying payload p.
TotalSizeBytes(p) == IF p.kind = "Msg" THEN p.val ELSE ctrl_bytes

\* The handle fields tx and stats: the channel and the SharedStats they refer to.
NoRefs == [tx |-> 0, stats |-> 0]

\* Instant::now().
Now == 0

\* The Instants given to send_at.
Times == 0..MaxTime

NoEnv == [time |-> Now, source |-> "none", kind |-> "None", val |-> 0, from |-> 0,
          eid |-> 0, tracked |-> 0]

\* A call in progress: its arguments, the eid of the envelope it enqueued, and
\* (history) pre: queue_bytes when the call began, or Disturbed once anything else
\* has run since.
Disturbed == 0 - 1

NoCall == [source |-> "none", payload |-> NoPayload, size |-> 0,
           pre |-> Disturbed, eid |-> 0]

\* What a call returned: by is the handle, op the function, status its outcome,
\* ret the payload handed back in the error; (history) arg and src are the payload
\* and the source the call was given, size and pre are pend's, eid is the envelope
\* enqueued.
NoRes == [by |-> 0, op |-> "none", status |-> "None", ret |-> NoPayload,
          arg |-> NoPayload, src |-> "none", size |-> 0, pre |-> Disturbed,
          eid |-> 0, time |-> Now]

\* ------------------------------------------------------------- helpers
Busy(s) == pc[s] \in {"sending", "rollback"}

\* A call begins on idle handle s, within the model's budget of calls.
Call(s) ==
    /\ pc[s] = "idle"
    /\ calls < MaxCalls
    /\ calls' = calls + 1

\* pend after a step of handle s (0: the Receiver) that leaves p in pend[s]:
\* every other call in progress has now run concurrently with something.
Others(s, p) ==
    [t \in Handles |->
        IF t = s THEN p
        ELSE IF Busy(t) THEN [pend[t] EXCEPT !.pre = Disturbed]
        ELSE pend[t]]

Resident(e) == (\E i \in 1..Len(transport) : transport[i].eid = e) \/ hand.eid = e

\* A send that puts the envelope at the head of the channel.
TxSendFront(q, env) == <<env>> \o q

\* crossbeam::channel::Sender::send on an open channel: the envelope joins the tail.
TxSend(q, env) == Append(q, env)

\* The SmartMessage a call on handle s builds; (history) from, eid, and tracked: the
\* size added to queue_bytes for it, 0 unless send_at_with_size sent it.
Envelope(s, src, p) ==
    [time |-> Now, source |-> src, kind |-> p.kind, val |-> p.val, from |-> s,
     eid |-> enq_count + 1, tracked |-> 0]

\* debug_assert!(!matches!(*source, SmartMessageSource::Unknown))
AssertFails(src) == debug_assertions /\ src = "Unknown"

\* The call on handle s ends with result r.
Return(s, r) ==
    /\ pc' = [pc EXCEPT ![s] = "idle"]
    /\ res' = [r EXCEPT !.by = s]
    /\ pend' = Others(s, NoCall)

\* A panic of the debug_assert! ends the call before it has done anything.
Panic(s, op, src, p) ==
    /\ Return(s, [NoRes EXCEPT !.op = op, !.status = "Panic", !.arg = p, !.src = src])
    /\ UNCHANGED <<transport, queue_bytes, enq_count, exact>>

\* tx.send(envelope) whose error does not carry the payload back.
SendOrFailKeeping(s, op, time, src, p, closed) ==
    IF rx_alive
    THEN /\ transport' = TxSend(transport,
                                [Envelope(s, src, p) EXCEPT !.time = time])
         /\ enq_count' = enq_count + 1
         /\ exact' = (exact /\ TotalSizeBytes(p) = 0)
         /\ Return(s, [NoRes EXCEPT !.op = op, !.status = "Ok", !.arg = p,
                                    !.src = src, !.eid = enq_count + 1,
                                    !.time = time])
    ELSE /\ Return(s, [NoRes EXCEPT !.op = op, !.status = closed, !.arg = p,
                                    !.src = src, !.time = time])
         /\ UNCHANGED <<transport, enq_count, exact>>

\* tx.send(envelope) and its outcome, for the operations that consist of nothing
\* else: Ok(()) with the envelope enqueued, or the error `closed` with payload p.
SendOrFail(s, op, time, src, p, closed) ==
    IF rx_alive
    THEN /\ transport' = TxSend(transport,
                                [Envelope(s, src, p) EXCEPT !.time = time])
         /\ enq_count' = enq_count + 1
         /\ exact' = (exact /\ TotalSizeBytes(p) = 0)
         /\ Return(s, [NoRes EXCEPT !.op = op, !.status = "Ok", !.arg = p,
                                    !.src = src, !.eid = enq_count + 1,
                                    !.time = time])
    ELSE /\ Return(s, [NoRes EXCEPT !.op = op, !.status = closed, !.ret = p,
                                    !.arg = p, !.src = src, !.time = time])
         /\ UNCHANGED <<transport, enq_count, exact>>

\* ------------------------------------------------------ Sender: sends
\* send_at_with_size that goes to tx.send without its fetch_add.
CallSendAtWithSizeUncounted(s, src, p, size) ==
    /\ Call(s)
    /\ IF AssertFails(src)
       THEN Panic(s, "send_at_with_size", src, p)
       ELSE /\ pc' = [pc EXCEPT ![s] = "sending"]
            /\ pend' = Others(s, [source |-> src, payload |-> p, size |-> size,
                                  pre |-> queue_bytes, eid |-> 0])
            /\ res' = NoRes
            /\ UNCHANGED <<transport, queue_bytes, enq_count, exact>>
    /\ UNCHANGED <<source, rx_alive, latency_nanos, rpc, hand, debug_assertions,
                   ctrl_bytes, drained, last_from, invoked, quit_at, refs, net_bytes, workerVars, viewerVars>>

\* send_at_with_size up to and including its fetch_add.
CallSendAtWithSize(s, src, p, size) ==
    /\ Call(s)
    /\ IF AssertFails(src)
       THEN Panic(s, "send_at_with_size", src, p)
       ELSE /\ queue_bytes' = (queue_bytes + size) % Modulus
            /\ pc' = [pc EXCEPT ![s] = "sending"]
            /\ pend' = Others(s, [source |-> src, payload |-> p, size |-> size,
                                  pre |-> queue_bytes, eid |-> 0])
            /\ res' = NoRes
            /\ UNCHANGED <<transport, enq_count, exact>>
    /\ UNCHANGED <<source, rx_alive, latency_nanos, rpc, hand, debug_assertions,
                   ctrl_bytes, drained, last_from, invoked, quit_at, refs, net_bytes, workerVars, viewerVars>>

\* A tx.send that waits for room in a transport holding one envelope at most.
SendAtWithSizeTxBounded(s) ==
    /\ pc[s] = "sending"
    /\ IF rx_alive
       THEN /\ transport = <<>>
            /\ transport' = TxSend(transport,
                                   [Envelope(s, pend[s].source, pend[s].payload)
                                        EXCEPT !.tracked = pend[s].size])
            /\ enq_count' = enq_count + 1
            /\ exact' = (exact /\ pend[s].size = TotalSizeBytes(pend[s].payload))
            /\ net_bytes' = net_bytes + pend[s].size
            /\ Return(s, [NoRes EXCEPT !.op = "send_at_with_size", !.status = "Ok",
                                       !.arg = pend[s].payload,
                                       !.src = pend[s].source,
                                       !.size = pend[s].size, !.pre = pend[s].pre,
                                       !.eid = enq_count + 1])
       ELSE /\ pc' = [pc EXCEPT ![s] = "rollback"]
            /\ pend' = Others(s, pend[s])
            /\ res' = NoRes
            /\ UNCHANGED <<transport, enq_count, exact, net_bytes>>
    /\ UNCHANGED <<source, rx_alive, queue_bytes, latency_nanos, rpc, hand,
                   debug_assertions, ctrl_bytes, drained, last_from, invoked,
                   quit_at, calls, refs, workerVars, viewerVars>>

\* send_at_with_size: self.tx.send(..) and the match on its result.
SendAtWithSizeTx(s) ==
    /\ pc[s] = "sending"
    /\ IF rx_alive
       THEN /\ transport' = TxSend(transport,
                                   [Envelope(s, pend[s].source, pend[s].payload)
                                        EXCEPT !.tracked = pend[s].size])
            /\ enq_count' = enq_count + 1
            /\ exact' = (exact /\ pend[s].size = TotalSizeBytes(pend[s].payload))
            /\ net_bytes' = net_bytes + pend[s].size
            /\ Return(s, [NoRes EXCEPT !.op = "send_at_with_size", !.status = "Ok",
                                       !.arg = pend[s].payload,
                                       !.src = pend[s].source,
                                       !.size = pend[s].size, !.pre = pend[s].pre,
                                       !.eid = enq_count + 1])
       ELSE /\ pc' = [pc EXCEPT ![s] = "rollback"]
            /\ pend' = Others(s, pend[s])
            /\ res' = NoRes
            /\ UNCHANGED <<transport, enq_count, exact, net_bytes>>
    /\ UNCHANGED <<source, rx_alive, queue_bytes, latency_nanos, rpc, hand,
                   debug_assertions, ctrl_bytes, drained, last_from, invoked,
                   quit_at, calls, refs, workerVars, viewerVars>>

\* The Err arm without its fetch_sub: the speculative addition stays.
SendAtWithSizeUndoKept(s) ==
    /\ pc[s] = "rollback"
    /\ Return(s, [NoRes EXCEPT !.op = "send_at_with_size", !.status = "Err",
                               !.ret = pend[s].payload, !.arg = pend[s].payload,
                               !.src = pend[s].source, !.size = pend[s].size,
                               !.pre = pend[s].pre])
    /\ UNCHANGED <<source, transport, rx_alive, queue_bytes, latency_nanos, rpc,
                   hand, debug_assertions, ctrl_bytes, enq_count, drained,
                   last_from, invoked, exact, quit_at, calls, refs, net_bytes, workerVars, viewerVars>>

\* send_at_with_size: the Err arm, undoing the size tracking.
SendAtWithSizeUndo(s) ==
    /\ pc[s] = "rollback"
    /\ queue_bytes' = (queue_bytes - pend[s].size) % Modulus
    /\ Return(s, [NoRes EXCEPT !.op = "send_at_with_size", !.status = "Err",
                               !.ret = pend[s].payload, !.arg = pend[s].payload,
                               !.src = pend[s].source, !.size = pend[s].size,
                               !.pre = pend[s].pre])
    /\ UNCHANGED <<source, transport, rx_alive, latency_nanos, rpc, hand,
                   debug_assertions, ctrl_bytes, enq_count, drained, last_from, invoked,
                   exact, quit_at, calls, refs, net_bytes, workerVars, viewerVars>>

\* send: the size is measured, then send_at_with_size.
Send(s, msg) == CallSendAtWithSize(s, source[s], msg, TotalSizeBytes(msg))

\* send_tracking: as send.
SendTracking(s, msg) == CallSendAtWithSize(s, source[s], msg, TotalSizeBytes(msg))

\* send_at_tracking: the size is measured, then send_at_with_size.
SendAtTracking(s, src, p) == CallSendAtWithSize(s, src, p, TotalSizeBytes(p))

\* send_at_with_size called with a size of the caller's choosing.
SendAtWithSize(s, src, p, size) == CallSendAtWithSize(s, src, p, size)

\* send_at that stamps the envelope with the time of the call.
SendAtStamped(s, time, src, p) ==
    /\ Call(s)
    /\ IF AssertFails(src)
       THEN Panic(s, "send_at", src, p)
       ELSE IF rx_alive
       THEN /\ transport' = TxSend(transport, Envelope(s, src, p))
            /\ enq_count' = enq_count + 1
            /\ exact' = (exact /\ TotalSizeBytes(p) = 0)
            /\ Return(s, [NoRes EXCEPT !.op = "send_at", !.status = "Ok", !.arg = p,
                                       !.src = src, !.eid = enq_count + 1,
                                       !.time = time])
       ELSE /\ Return(s, [NoRes EXCEPT !.op = "send_at", !.status = "Err",
                                       !.ret = p, !.arg = p, !.src = src,
                                       !.time = time])
            /\ UNCHANGED <<transport, enq_count, exact>>
    /\ UNCHANGED <<source, rx_alive, queue_bytes, latency_nanos, rpc, hand,
                   debug_assertions, ctrl_bytes, drained, last_from, invoked,
                   quit_at, refs, net_bytes, workerVars, viewerVars>>

\* send_at: the envelope is forwarded as it is; the counters are not touched.
SendAt(s, time, src, p) ==
    /\ Call(s)
    /\ IF AssertFails(src)
       THEN Panic(s, "send_at", src, p)
       ELSE SendOrFail(s, "send_at", time, src, p, "Err")
    /\ UNCHANGED <<source, rx_alive, queue_bytes, latency_nanos, rpc, hand,
                   debug_assertions, ctrl_bytes, drained, last_from, invoked,
                   quit_at, refs, net_bytes, workerVars, viewerVars>>

\* ------------------------------------------------- Sender: flush, quit
\* flush_blocking whose callback runs as soon as the Flush envelope is sent.
FlushBlockingEager(s) ==
    /\ Call(s)
    /\ IF rx_alive
       THEN /\ transport' = TxSend(transport, Envelope(s, source[s], FlushPayload))
            /\ enq_count' = enq_count + 1
            /\ exact' = (exact /\ TotalSizeBytes(FlushPayload) = 0)
            /\ invoked' = [invoked EXCEPT ![enq_count + 1] = 1]
            /\ pc' = [pc EXCEPT ![s] = "flush_fired"]
            /\ pend' = Others(s, [NoCall EXCEPT !.source = source[s],
                                                !.payload = FlushPayload,
                                                !.eid = enq_count + 1])
            /\ res' = NoRes
       ELSE /\ Return(s, [NoRes EXCEPT !.op = "flush_blocking", !.status = "Closed",
                                       !.arg = FlushPayload, !.src = source[s]])
            /\ UNCHANGED <<transport, enq_count, exact, invoked>>
    /\ UNCHANGED <<source, rx_alive, queue_bytes, latency_nanos, rpc, hand,
                   debug_assertions, ctrl_bytes, drained, last_from, quit_at,
                   refs, net_bytes, workerVars, viewerVars>>

\* flush_blocking up to its self.tx.send(..).map_err(..)?: the oneshot is created
\* and the Flush envelope, whose callback holds the oneshot's sending end, is sent.
FlushBlocking(s) ==
    /\ Call(s)
    /\ IF rx_alive
       THEN /\ transport' = TxSend(transport, Envelope(s, source[s], FlushPayload))
            /\ enq_count' = enq_count + 1
            /\ exact' = (exact /\ TotalSizeBytes(FlushPayload) = 0)
            /\ invoked' = [invoked EXCEPT ![enq_count + 1] = 0]
            /\ pc' = [pc EXCEPT ![s] = "flush_wait"]
            /\ pend' = Others(s, [NoCall EXCEPT !.source = source[s],
                                                !.payload = FlushPayload,
                                                !.eid = enq_count + 1])
            /\ res' = NoRes
       ELSE /\ Return(s, [NoRes EXCEPT !.op = "flush_blocking", !.status = "Closed",
                                       !.arg = FlushPayload, !.src = source[s]])
            /\ UNCHANGED <<transport, enq_count, exact, invoked>>
    /\ UNCHANGED <<source, rx_alive, queue_bytes, latency_nanos, rpc, hand,
                   debug_assertions, ctrl_bytes, drained, last_from, quit_at,
                   refs, net_bytes, workerVars, viewerVars>>

\* flush_blocking returns what rx.recv_timeout(timeout) gave.
FlushReturn(s, status) ==
    /\ Return(s, [NoRes EXCEPT !.op = "flush_blocking", !.status = status,
                               !.arg = FlushPayload, !.src = pend[s].source,
                               !.eid = pend[s].eid])
    /\ UNCHANGED <<source, transport, rx_alive, queue_bytes, latency_nanos, rpc,
                   hand, debug_assertions, ctrl_bytes, enq_count, drained, last_from, invoked,
                   exact, quit_at, calls, refs, net_bytes, workerVars, viewerVars>>

\* rx.recv_timeout(timeout) returns Ok(()): the callback handed the unit over.
FlushRecvOk(s) ==
    /\ pc[s] = "flush_fired"
    /\ FlushReturn(s, "Ok")

\* A wait on the oneshot without a timeout.
FlushRecvNoTimeout(s) ==
    /\ FALSE
    /\ pc[s] = "flush_wait"
    /\ FlushReturn(s, "Timeout")

\* A timeout reported as success.
FlushRecvTimeoutAsOk(s) ==
    /\ pc[s] = "flush_wait"
    /\ FlushReturn(s, "Ok")

\* rx.recv_timeout(timeout) returns Err(Timeout): nothing came, and the oneshot's
\* sending end still exists. The receiving end is dropped on return.
FlushRecvTimeout(s) ==
    /\ pc[s] = "flush_wait"
    /\ FlushReturn(s, "Timeout")

\* A disconnected oneshot reported as a timeout.
FlushRecvDisconnectedAsTimeout(s) ==
    /\ pc[s] = "flush_disc"
    /\ FlushReturn(s, "Timeout")

\* rx.recv_timeout(timeout) returns Err(Disconnected): the callback was dropped
\* without being invoked.
FlushRecvDisconnected(s) ==
    /\ pc[s] = "flush_disc"
    /\ FlushReturn(s, "Closed")

\* quit that tags its envelope with the source of the first handle.
QuitAsFirst(s, err) ==
    /\ Call(s)
    /\ IF AssertFails(source[1])
       THEN Panic(s, "quit", source[1], err)
       ELSE SendOrFail(s, "quit", Now, source[1], err, "Err")
    /\ quit_at' = [quit_at EXCEPT ![s] = IF @ = 0 /\ enq_count' # enq_count
                                         THEN enq_count' ELSE @]
    /\ UNCHANGED <<source, rx_alive, queue_bytes, latency_nanos, rpc, hand,
                   debug_assertions, ctrl_bytes, drained, last_from, invoked,
                   refs, net_bytes, workerVars, viewerVars>>

\* quit that adds the measured size of its envelope to queue_bytes.
QuitCounted(s, err) ==
    /\ Call(s)
    /\ IF AssertFails(source[s])
       THEN /\ Panic(s, "quit", source[s], err)
            /\ UNCHANGED net_bytes
       ELSE /\ SendOrFail(s, "quit", Now, source[s], err, "Err")
            /\ queue_bytes' = (queue_bytes + 1) % Modulus
            /\ net_bytes' = net_bytes + 1
    /\ quit_at' = [quit_at EXCEPT ![s] = IF @ = 0 /\ enq_count' # enq_count
                                         THEN enq_count' ELSE @]
    /\ UNCHANGED <<source, rx_alive, latency_nanos, rpc, hand,
                   debug_assertions, ctrl_bytes, drained, last_from, invoked,
                   refs, workerVars, viewerVars>>

\* quit that also closes the transport for everyone.
QuitClosing(s, err) ==
    /\ Call(s)
    /\ IF AssertFails(source[s])
       THEN Panic(s, "quit", source[s], err)
       ELSE SendOrFail(s, "quit", Now, source[s], err, "Err")
    /\ quit_at' = [quit_at EXCEPT ![s] = IF @ = 0 /\ enq_count' # enq_count
                                         THEN enq_count' ELSE @]
    /\ rx_alive' = FALSE
    /\ UNCHANGED <<source, queue_bytes, latency_nanos, rpc, hand,
                   debug_assertions, ctrl_bytes, drained, last_from, invoked,
                   refs, net_bytes, workerVars, viewerVars>>

\* quit: on failure the whole envelope comes back in the SendError.
Quit(s, err) ==
    /\ Call(s)
    /\ IF AssertFails(source[s])
       THEN Panic(s, "quit", source[s], err)
       ELSE SendOrFail(s, "quit", Now, source[s], err, "Err")
    /\ quit_at' = [quit_at EXCEPT ![s] = IF @ = 0 /\ enq_count' # enq_count
                                         THEN enq_count' ELSE @]
    /\ UNCHANGED <<source, rx_alive, queue_bytes, latency_nanos, rpc, hand,
                   debug_assertions, ctrl_bytes, drained, last_from, invoked,
                   refs, net_bytes, workerVars, viewerVars>>

\* A clone that keeps the source of the handle it was cloned from.
CloneAsKeeping(s, src) ==
    /\ pc[s] = "idle"
    /\ \E n \in Handles :
        /\ pc[n] = "none"
        /\ \A m \in Handles : m < n => pc[m] # "none"
        /\ source' = [source EXCEPT ![n] = source[s]]
        /\ refs' = [refs EXCEPT ![n] = refs[s]]
        /\ pc' = [pc EXCEPT ![n] = "idle"]
    /\ pend' = Others(s, NoCall)
    /\ res' = NoRes
    /\ UNCHANGED <<transport, rx_alive, queue_bytes, latency_nanos, rpc, hand,
                   debug_assertions, ctrl_bytes, enq_count, drained, last_from, invoked,
                   exact, quit_at, calls, net_bytes, workerVars, viewerVars>>

\* clone_as: a new handle on the same transport and statistics, with its own source.
CloneAs(s, src) ==
    /\ pc[s] = "idle"
    /\ \E n \in Handles :
        /\ pc[n] = "none"
        /\ \A m \in Handles : m < n => pc[m] # "none"
        /\ source' = [source EXCEPT ![n] = src]
        /\ refs' = [refs EXCEPT ![n] = refs[s]]
        /\ pc' = [pc EXCEPT ![n] = "idle"]
    /\ pend' = Others(s, NoCall)
    /\ res' = NoRes
    /\ UNCHANGED <<transport, rx_alive, queue_bytes, latency_nanos, rpc, hand,
                   debug_assertions, ctrl_bytes, enq_count, drained, last_from, invoked,
                   exact, quit_at, calls, net_bytes, workerVars, viewerVars>>

\* ------------------------------------------------ Sender: introspection
\* is_empty: self.tx.is_empty().
is_empty(s) == transport = <<>>

\* len: self.tx.len().
len(s) == Len(transport)

\* latency_nanos(): self.stats.latency_nanos.load(Relaxed).
LatencyNanos(s) == latency_nanos

\* queue_bytes(): self.stats.queue_bytes.load(Relaxed).
QueueBytes(s) == queue_bytes

\* ------------------------------------------------------------ Receiver
\* A callback that signals every flusher that is waiting.
SignalAny(e, to) ==
    [t \in Handles |-> IF pc[t] = "flush_wait" THEN to ELSE pc[t]]

\* The flusher waiting on the oneshot of Flush envelope e moves to pc `to`.
Signal(e, to) ==
    [t \in Handles |->
        IF pc[t] = "flush_wait" /\ pend[t].eid = e THEN to ELSE pc[t]]

\* The Receiver dequeues the envelope at the head of the transport.
RecvDequeue ==
    /\ rx_alive
    /\ rpc = "idle"
    /\ transport # <<>>
    /\ hand' = Head(transport)
    /\ transport' = Tail(transport)
    /\ rpc' = "holding"
    /\ pend' = Others(0, NoCall)
    /\ res' = NoRes
    /\ UNCHANGED <<source, rx_alive, queue_bytes, latency_nanos, pc,
                   debug_assertions, ctrl_bytes, enq_count, drained, last_from, invoked,
                   exact, quit_at, calls, refs, net_bytes, workerVars, viewerVars>>

\* The Receiver accounts for the dequeued envelope and handles its payload: the
\* measured size leaves queue_bytes, the latency is replaced, a Flush payload's
\* callback is invoked, and the envelope is handed on: res holds, with by = 0,
\* the source and the payload the Receiver's caller is given.
RecvHandle(elapsed) ==
    /\ rpc = "holding"
    /\ queue_bytes' = (queue_bytes - TotalSizeBytes(hand)) % Modulus
    /\ net_bytes' = net_bytes - TotalSizeBytes(hand)
    /\ latency_nanos' = elapsed
    /\ IF hand.kind = "Flush"
       THEN /\ invoked' = [invoked EXCEPT ![hand.eid] = @ + 1]
            /\ pc' = Signal(hand.eid, "flush_fired")
       ELSE UNCHANGED <<invoked, pc>>
    /\ drained' = drained \cup {hand.eid}
    /\ last_from' = [last_from EXCEPT ![hand.from] = hand.eid]
    /\ hand' = NoEnv
    /\ rpc' = "idle"
    /\ pend' = Others(0, NoCall)
    /\ res' = [NoRes EXCEPT !.op = "recv", !.status = "Ok",
                            !.arg = [kind |-> hand.kind, val |-> hand.val],
                            !.src = hand.source, !.eid = hand.eid]
    /\ UNCHANGED <<source, transport, rx_alive, debug_assertions, ctrl_bytes,
                   enq_count, exact, quit_at, calls, refs, workerVars, viewerVars>>

\* The Receiver is dropped: the channel is marked disconnected.
DropReceiver ==
    /\ rx_alive
    /\ rpc = "idle"
    /\ rx_alive' = FALSE
    /\ pend' = Others(0, NoCall)
    /\ res' = NoRes
    /\ UNCHANGED <<source, transport, queue_bytes, latency_nanos, pc, rpc, hand,
                   debug_assertions, ctrl_bytes, enq_count, drained, last_from, invoked,
                   exact, quit_at, calls, refs, net_bytes, workerVars, viewerVars>>

FlushEids(q) == {q[i].eid : i \in {j \in 1..Len(q) : q[j].kind = "Flush"}}

\* Teardown: the envelopes left in the disconnected channel are destroyed; a Flush
\* callback destroyed this way drops its oneshot sending end without a send.
DiscardAllMessages ==
    /\ ~rx_alive
    /\ transport # <<>>
    /\ transport' = <<>>
    /\ pc' = [t \in Handles |->
                IF pc[t] = "flush_wait" /\ pend[t].eid \in FlushEids(transport)
                THEN "flush_disc" ELSE pc[t]]
    /\ pend' = Others(0, NoCall)
    /\ res' = NoRes
    /\ UNCHANGED <<source, rx_alive, queue_bytes, latency_nanos, rpc, hand,
                   debug_assertions, ctrl_bytes, enq_count, drained, last_from, invoked,
                   exact, quit_at, calls, refs, net_bytes, workerVars, viewerVars>>

\* ---------------------------------------------------- ingestion worker
\* The capacity of the input queue: WORK_QUEUE_CAPACITY, as far as the model goes.
Capacity == IF WORK_QUEUE_CAPACITY < MaxQueue THEN WORK_QUEUE_CAPACITY ELSE MaxQueue

NoItem == [id |-> 0, store_id |-> 0, ok |-> FALSE, channel_source |-> "none",
           msg_will_add_new_store |-> FALSE]

\* The routing metadata submitted with a message: two values that differ in
\* every field.
Routings ==
    {[store_id |-> 1, channel_source |-> "File", msg_will_add_new_store |-> TRUE],
     [store_id |-> 2, channel_source |-> "Net", msg_will_add_new_store |-> FALSE]}

\* The work items a caller may submit; ok says whether the arrow message decodes.
WorkItems(id) ==
    {[id |-> id, store_id |-> r.store_id, ok |-> ok,
      channel_source |-> r.channel_source,
      msg_will_add_new_store |-> r.msg_will_add_new_store] :
        r \in Routings, ok \in BOOLEAN}

\* process_arrow_msg: Ok((chunk, timestamps)) or an error, by the message alone.
ProcessArrowMsg(item) == item.ok

\* A ProcessedChunk built with the routing fields of the first kind of item.
ProcessedChunkDefault(item) ==
    [id |-> item.id, store_id |-> 1, ok |-> TRUE, channel_source |-> "File",
     msg_will_add_new_store |-> TRUE]

\* The ProcessedChunk built from a work item: the chunk decoded from it (named by
\* the item's id) with the item's routing fields.
ProcessedChunk(item) ==
    [id |-> item.id, store_id |-> item.store_id, ok |-> TRUE,
     channel_source |-> item.channel_source,
     msg_will_add_new_store |-> item.msg_will_add_new_store]

\* submit_arrow_msg_blocking: the work item is built and input_tx.send is called.
SubmitArrowMsgBlocking ==
    /\ handle_alive
    /\ sub_pc = "idle"
    /\ submitted < MaxItems
    /\ \E item \in WorkItems(submitted + 1) :
          /\ sub_item' = item
          /\ items' = Append(items, item)
    /\ submitted' = submitted + 1
    /\ sub_pc' = "sending"
    /\ UNCHANGED <<handle_alive, input_queue, output_queue, worker_pc, work, poll_pc,
                   chunks, decoded, polled, poll_seen, chanVars, viewerVars>>

\* A submit that turns away the items that will not decode.
SubmitSendChecked ==
    /\ sub_pc = "sending"
    /\ IF worker_pc = "exited" \/ ~ProcessArrowMsg(sub_item)
       THEN UNCHANGED input_queue
       ELSE /\ Len(input_queue) < Capacity
            /\ input_queue' = Append(input_queue, sub_item)
    /\ sub_pc' = "idle"
    /\ sub_item' = NoItem
    /\ UNCHANGED <<handle_alive, output_queue, worker_pc, work, poll_pc, chunks,
                   submitted, decoded, polled, poll_seen, items, chanVars, viewerVars>>

\* input_tx.send on a channel without a capacity.
SubmitSendUnbounded ==
    /\ sub_pc = "sending"
    /\ IF worker_pc = "exited"
       THEN UNCHANGED input_queue
       ELSE input_queue' = Append(input_queue, sub_item)
    /\ sub_pc' = "idle"
    /\ sub_item' = NoItem
    /\ UNCHANGED <<handle_alive, output_queue, worker_pc, work, poll_pc, chunks,
                   submitted, decoded, polled, poll_seen, items, chanVars, viewerVars>>

\* input_tx.send(work_item) returns: the item is in the queue, which had room, or
\* the worker's receiving end is gone and a warning is logged.
SubmitSend ==
    /\ sub_pc = "sending"
    /\ IF worker_pc = "exited"
       THEN UNCHANGED input_queue
       ELSE /\ Len(input_queue) < Capacity
            /\ input_queue' = Append(input_queue, sub_item)
    /\ sub_pc' = "idle"
    /\ sub_item' = NoItem
    /\ UNCHANGED <<handle_alive, output_queue, worker_pc, work, poll_pc, chunks,
                   submitted, decoded, polled, poll_seen, items, chanVars, viewerVars>>

\* poll_processed_chunks: let mut chunks = Vec::new().
PollProcessedChunks ==
    /\ handle_alive
    /\ poll_pc = "idle"
    /\ poll_pc' = "draining"
    /\ chunks' = <<>>
    /\ poll_seen' = output_queue
    /\ UNCHANGED <<handle_alive, input_queue, output_queue, worker_pc, work, sub_pc,
                   sub_item, submitted, decoded, polled, items, chanVars, viewerVars>>

\* A poll that returns after the first chunk it receives.
PollTryRecvOnce ==
    /\ poll_pc = "draining"
    /\ IF output_queue # <<>>
       THEN /\ polled' = Append(polled \o chunks, Head(output_queue))
            /\ output_queue' = Tail(output_queue)
       ELSE /\ polled' = polled \o chunks
            /\ UNCHANGED output_queue
    /\ chunks' = <<>>
    /\ poll_pc' = "idle"
    /\ poll_seen' = <<>>
    /\ UNCHANGED <<handle_alive, input_queue, worker_pc, work, sub_pc, sub_item,
                   submitted, decoded, items, chanVars, viewerVars>>

\* poll_processed_chunks: one turn of while let Ok(chunk) = output_rx.try_recv(),
\* or the return of chunks when try_recv finds nothing.
PollTryRecv ==
    /\ poll_pc = "draining"
    /\ IF output_queue # <<>>
       THEN /\ chunks' = Append(chunks, Head(output_queue))
            /\ output_queue' = Tail(output_queue)
            /\ UNCHANGED <<poll_pc, polled, poll_seen>>
       ELSE /\ polled' = polled \o chunks
            /\ chunks' = <<>>
            /\ poll_pc' = "idle"
            /\ poll_seen' = <<>>
            /\ UNCHANGED output_queue
    /\ UNCHANGED <<handle_alive, input_queue, worker_pc, work, sub_pc, sub_item,
                   submitted, decoded, items, chanVars, viewerVars>>

\* The spawned thread enters worker_loop.
WorkerStart ==
    /\ worker_pc = "spawned"
    /\ worker_pc' = "recv"
    /\ UNCHANGED <<handle_alive, input_queue, output_queue, work, sub_pc, sub_item,
                   poll_pc, chunks, submitted, decoded, polled, poll_seen, items, chanVars, viewerVars>>

\* An input_rx.recv() that keeps waiting on an empty queue whose senders are gone.
WorkerRecvWaiting ==
    /\ worker_pc = "recv"
    /\ input_queue # <<>>
    /\ work' = Head(input_queue)
    /\ input_queue' = Tail(input_queue)
    /\ worker_pc' = "process"
    /\ UNCHANGED <<handle_alive, output_queue, sub_pc, sub_item, poll_pc, chunks,
                   submitted, decoded, polled, poll_seen, items, chanVars, viewerVars>>

\* worker_loop: input_rx.recv() returns a work item, or an error once the queue is
\* empty and input_tx is gone.
WorkerRecv ==
    /\ worker_pc = "recv"
    /\ IF input_queue # <<>>
       THEN /\ work' = Head(input_queue)
            /\ input_queue' = Tail(input_queue)
            /\ worker_pc' = "process"
       ELSE /\ ~handle_alive
            /\ worker_pc' = "exited"
            /\ UNCHANGED <<work, input_queue>>
    /\ UNCHANGED <<handle_alive, output_queue, sub_pc, sub_item, poll_pc, chunks,
                   submitted, decoded, polled, poll_seen, items, chanVars, viewerVars>>

\* A worker_loop that leaves the loop on a decode error.
WorkerProcessBreak ==
    /\ worker_pc = "process"
    /\ IF ProcessArrowMsg(work)
       THEN /\ work' = ProcessedChunk(work)
            /\ worker_pc' = "send"
            /\ UNCHANGED decoded
       ELSE /\ work' = NoItem
            /\ worker_pc' = "exited"
            /\ decoded' = Append(decoded, [id |-> work.id, ok |-> FALSE])
    /\ UNCHANGED <<handle_alive, input_queue, output_queue, sub_pc, sub_item,
                   poll_pc, chunks, submitted, polled, poll_seen, items, chanVars, viewerVars>>

\* worker_loop: process_arrow_msg and the match on its result, up to output_tx.send.
WorkerProcess ==
    /\ worker_pc = "process"
    /\ IF ProcessArrowMsg(work)
       THEN /\ work' = ProcessedChunk(work)
            /\ worker_pc' = "send"
            /\ UNCHANGED decoded
       ELSE /\ work' = NoItem
            /\ worker_pc' = "recv"
            /\ decoded' = Append(decoded, [id |-> work.id, ok |-> FALSE])
    /\ UNCHANGED <<handle_alive, input_queue, output_queue, sub_pc, sub_item,
                   poll_pc, chunks, submitted, polled, poll_seen, items, chanVars, viewerVars>>

\* An output_tx.send that puts the chunk at the head of the output channel.
WorkerSendFront ==
    /\ worker_pc = "send"
    /\ IF handle_alive
       THEN /\ output_queue' = <<work>> \o output_queue
            /\ worker_pc' = "recv"
       ELSE /\ worker_pc' = "exited"
            /\ UNCHANGED output_queue
    /\ decoded' = Append(decoded, [id |-> work.id, ok |-> TRUE])
    /\ work' = NoItem
    /\ UNCHANGED <<handle_alive, input_queue, sub_pc, sub_item, poll_pc, chunks,
                   submitted, polled, poll_seen, items, chanVars, viewerVars>>

\* An output_tx.send that pushes the chunk twice.
WorkerSendTwice ==
    /\ worker_pc = "send"
    /\ IF handle_alive
       THEN /\ output_queue' = Append(Append(output_queue, work), work)
            /\ worker_pc' = "recv"
       ELSE /\ worker_pc' = "exited"
            /\ UNCHANGED output_queue
    /\ decoded' = Append(decoded, [id |-> work.id, ok |-> TRUE])
    /\ work' = NoItem
    /\ UNCHANGED <<handle_alive, input_queue, sub_pc, sub_item, poll_pc, chunks,
                   submitted, polled, poll_seen, items, chanVars, viewerVars>>

\* An output_tx.send on a channel without room: it waits for a poll to take the chunk.
WorkerSendRendezvous ==
    /\ worker_pc = "send"
    /\ IF handle_alive
       THEN /\ poll_pc = "draining"
            /\ output_queue' = Append(output_queue, work)
            /\ worker_pc' = "recv"
       ELSE /\ worker_pc' = "exited"
            /\ UNCHANGED output_queue
    /\ decoded' = Append(decoded, [id |-> work.id, ok |-> TRUE])
    /\ work' = NoItem
    /\ UNCHANGED <<handle_alive, input_queue, sub_pc, sub_item, poll_pc, chunks,
                   submitted, polled, poll_seen, items, chanVars, viewerVars>>

\* worker_loop: output_tx.send(processed), and the break when output_rx is gone.
WorkerSend ==
    /\ worker_pc = "send"
    /\ IF handle_alive
       THEN /\ output_queue' = Append(output_queue, work)
            /\ worker_pc' = "recv"
       ELSE /\ worker_pc' = "exited"
            /\ UNCHANGED output_queue
    /\ decoded' = Append(decoded, [id |-> work.id, ok |-> TRUE])
    /\ work' = NoItem
    /\ UNCHANGED <<handle_alive, input_queue, sub_pc, sub_item, poll_pc, chunks,
                   submitted, polled, poll_seen, items, chanVars, viewerVars>>

\* The IngestionWorker is dropped: input_tx and output_rx go, the thread is detached,
\* and the chunks left in the output channel are destroyed with it.
DropIngestionWorker ==
    /\ handle_alive
    /\ sub_pc = "idle"
    /\ poll_pc = "idle"
    /\ handle_alive' = FALSE
    /\ output_queue' = <<>>
    /\ UNCHANGED <<input_queue, worker_pc, work, sub_pc, sub_item, poll_pc, chunks,
                   submitted, decoded, polled, poll_seen, items, chanVars, viewerVars>>

\* ------------------------------------------- visualizable entities cache
ViewIds == 1..MaxViews

\* ChunkStoreGeneration: the recording as far as the cache can tell it apart.
Generations == 0..MaxGeneration

SpaceOrigins == {"/", "/world"}

ClassIdentifiers == {"2D", "3D"}

\* PerVisualizer<MaybeVisualizableEntities>, for one visualizer: the set of the
\* entities its subscriber reports.
MaybeVisualizable == SUBSET (1..MaxEntities)

\* ViewBlueprint, as far as the cache reads it.
Views == [id : ViewIds, space_origin : SpaceOrigins, class_identifier : ClassIdentifiers]

RECURSIVE SumOf(_)
SumOf(S) == IF S = {} THEN 0 ELSE LET e == CHOOSE x \in S : TRUE IN e + SumOf(S \ {e})

\* The hash of the entity count and of the entities in sorted order, at the
\* model's width: it does not depend on the iteration order, and two different
\* sets can share it.
subscriber_fingerprint(maybe_visualizable) ==
    (Cardinality(maybe_visualizable) + SumOf(maybe_visualizable)) % (2 ^ FingerprintBits)

from_view(view, recording, maybe_visualizable) ==
    [recording_generation |-> recording,
     space_origin |-> view.space_origin,
     class_identifier |-> view.class_identifier,
     subscriber_fingerprint |-> subscriber_fingerprint(maybe_visualizable)]

\* ViewClass::determine_visualizable_entities: a function of its arguments (the
\* visualizer collection is a function of the class identifier), whose result
\* tells the arguments apart.
determine_visualizable_entities(maybe_visualizable, recording, class_identifier, space_origin) ==
    [of |-> maybe_visualizable, at |-> recording, class |-> class_identifier,
     origin |-> space_origin]

NoEntry == [view_id |-> 0]

\* HashMap::get
HashMapGet(map, view_id) ==
    IF \E e \in map : e.view_id = view_id
    THEN CHOOSE e \in map : e.view_id = view_id
    ELSE NoEntry

\* HashMap::remove
HashMapRemove(map, view_id) == {e \in map : e.view_id # view_id}

\* HashMap::insert: the entry replaces the one stored under the view id.
HashMapInsert(map, view_id, cache_key, visualizable_entities) ==
    HashMapRemove(map, view_id) \cup
        {[view_id |-> view_id, cache_key |-> cache_key,
          visualizable_entities |-> visualizable_entities]}

NoVisRet == [op |-> "none"]

VisRet(view, recording, maybe_visualizable, value, computed) ==
    [op |-> "get_or_determine", view |-> view, recording |-> recording,
     maybe |-> maybe_visualizable, value |-> value, computed |-> computed]

\* A get_or_determine that takes any entry stored under the view id for a hit.
GetOrDetermineByView(view, recording, maybe_visualizable) ==
    LET current_key == from_view(view, recording, maybe_visualizable)
        cached == HashMapGet(vis_cache, view.id)
    IN  /\ IF cached # NoEntry
           THEN /\ vis_cache' = vis_cache
                /\ vis_ret' = VisRet(view, recording, maybe_visualizable,
                                     cached.visualizable_entities, FALSE)
           ELSE LET visualizable_entities ==
                        determine_visualizable_entities(maybe_visualizable, recording,
                            view.class_identifier, view.space_origin)
                IN  /\ vis_cache' = HashMapInsert(vis_cache, view.id, current_key,
                                                  visualizable_entities)
                    /\ vis_ret' = VisRet(view, recording, maybe_visualizable,
                                         visualizable_entities, TRUE)
        /\ UNCHANGED exceptVis

\* VisualizableEntitiesCache::get_or_determine
GetOrDetermine(view, recording, maybe_visualizable) ==
    LET current_key == from_view(view, recording, maybe_visualizable)
        cached == HashMapGet(vis_cache, view.id)
    IN  /\ IF cached # NoEntry /\ cached.cache_key = current_key
           THEN /\ vis_cache' = vis_cache
                /\ vis_ret' = VisRet(view, recording, maybe_visualizable,
                                     cached.visualizable_entities, FALSE)
           ELSE LET visualizable_entities ==
                        determine_visualizable_entities(maybe_visualizable, recording,
                            view.class_identifier, view.space_origin)
                IN  /\ vis_cache' = HashMapInsert(vis_cache, view.id, current_key,
                                                  visualizable_entities)
                    /\ vis_ret' = VisRet(view, recording, maybe_visualizable,
                                         visualizable_entities, TRUE)
        /\ UNCHANGED exceptVis

\* VisualizableEntitiesCache::clear
CacheClear ==
    /\ vis_cache' = {}
    /\ vis_ret' = [op |-> "clear"]
    /\ UNCHANGED exceptVis

\* VisualizableEntitiesCache::remove
CacheRemove(view_id) ==
    /\ vis_cache' = HashMapRemove(vis_cache, view_id)
    /\ vis_ret' = [op |-> "remove", view_id |-> view_id]
    /\ UNCHANGED exceptVis

\* ---------------------------------------------------- annotation map cache
\* LatestAtQuery: a timeline and a time.
Queries == [timeline : {"frame", "log_time"}, at : 0..MaxAt]

\* What the chunk of a store event can hold: an annotation context, or not.
EventChunks == {"AnnotationContext", "Points3D"}

NoAnnRet == [op |-> "none"]

AnnRet(query, arc, loaded) == [op |-> "get", query |-> query, arc |-> arc, loaded |-> loaded]

\* An empty HashMap<LatestAtQuery, Arc<AnnotationMap>>.
NoArcs == {}

\* HashMap::get: the Arc stored under the query, or 0.
ArcOf(map, query) ==
    IF \E e \in map : e.query = query
    THEN (CHOOSE e \in map : e.query = query).arc
    ELSE 0

\* HashMap::insert
WithArc(map, query, arc) ==
    {e \in map : e.query # query} \cup {[query |-> query, arc |-> arc]}

\* A get that loads and caches whether the query is cached or not.
AnnGetReload(query) ==
    /\ ann_arcs < MaxLoads
    /\ ann_arcs' = ann_arcs + 1
    /\ ann_cached' = WithArc(ann_cached, query, ann_arcs + 1)
    /\ ann_ret' = AnnRet(query, ann_arcs + 1, TRUE)
    /\ ann_given' = WithArc(ann_given, query, ann_arcs + 1)
    /\ UNCHANGED exceptAnn

\* AnnotationMapCache::get. An Arc is the number of the allocation that made it.
AnnGet(query) ==
    /\ IF ArcOf(ann_cached, query) # 0
       THEN /\ ann_ret' = AnnRet(query, ArcOf(ann_cached, query), FALSE)
            /\ ann_given' = WithArc(ann_given, query, ArcOf(ann_cached, query))
            /\ UNCHANGED <<ann_cached, ann_arcs>>
       ELSE /\ ann_arcs < MaxLoads
            /\ ann_arcs' = ann_arcs + 1
            /\ ann_cached' = WithArc(ann_cached, query, ann_arcs + 1)
            /\ ann_ret' = AnnRet(query, ann_arcs + 1, TRUE)
            /\ ann_given' = WithArc(ann_given, query, ann_arcs + 1)
    /\ UNCHANGED exceptAnn

\* Cache::begin_frame
AnnBeginFrame ==
    /\ ann_cached' = NoArcs
    /\ ann_ret' = [op |-> "begin_frame"]
    /\ ann_given' = NoArcs
    /\ UNCHANGED <<ann_arcs, exceptAnn>>

\* Cache::purge_memory
AnnPurgeMemory ==
    /\ ann_cached' = NoArcs
    /\ ann_ret' = [op |-> "purge_memory"]
    /\ ann_given' = NoArcs
    /\ UNCHANGED <<ann_arcs, exceptAnn>>

\* Cache::on_store_events, events being the chunks of the events.
AnnOnStoreEvents(events) ==
    LET has_annotation_context_changes == \E event \in events : event = "AnnotationContext"
    IN  /\ ann_cached' = IF has_annotation_context_changes THEN NoArcs ELSE ann_cached
        /\ ann_ret' = [op |-> "on_store_events", events |-> events]
        /\ ann_given' = IF "AnnotationContext" \in events THEN NoArcs ELSE ann_given
        /\ UNCHANGED <<ann_arcs, exceptAnn>>

\* ------------------------------------------------------ performance panel
\* A frame time is modelled by the number, since the last reset, of the frame it
\* measured, and the eleven atomic counters of performance_metrics by one.
NoPanelOp == "none"

\* VecDeque::pop_front, as long as the window is exceeded.
RECURSIVE KeepLast(_, _)
KeepLast(frame_times, n) ==
    IF Len(frame_times) > n THEN KeepLast(Tail(frame_times), n) ELSE frame_times

\* A begin_frame that looks at enabled only.
BeginFrameWhilePaused ==
    /\ panel_op' = "begin_frame"
    /\ IF ~panel.enabled
       THEN UNCHANGED <<panel, panel_hist>>
       ELSE /\ panel' = [panel EXCEPT !.frame_start = TRUE]
            /\ panel_hist' = IF panel.paused
                             THEN [panel_hist EXCEPT !.ignored = TRUE]
                             ELSE [panel_hist EXCEPT !.pending = TRUE]
    /\ UNCHANGED <<perf_atomics, exceptPanel>>

\* PerformancePanel::begin_frame
BeginFrame ==
    /\ panel_op' = "begin_frame"
    /\ IF ~panel.enabled \/ panel.paused
       THEN /\ panel' = panel
            /\ panel_hist' = [panel_hist EXCEPT !.ignored = TRUE]
       ELSE /\ panel' = [panel EXCEPT !.frame_start = TRUE]
            /\ panel_hist' = [panel_hist EXCEPT !.pending = TRUE]
    /\ UNCHANGED <<perf_atomics, exceptPanel>>

\* What end_frame does with the frame that was started.
RecordFrame(window) ==
    /\ panel.total_frames < MaxFrames
    /\ panel' = [panel EXCEPT
            !.frame_start = FALSE,
            !.frame_times = KeepLast(Append(panel.frame_times, panel.total_frames + 1), window),
            !.total_frames = panel.total_frames + 1,
            !.metrics = perf_atomics]
    /\ perf_atomics' = 0

\* The history of an end_frame: a pair is completed by an end_frame that is not
\* ignored and follows a begin_frame that was not ignored.
EndFrameHistory ==
    panel_hist' =
        IF ~panel.enabled \/ panel.paused
        THEN [panel_hist EXCEPT !.ignored = TRUE]
        ELSE IF panel_hist.pending
             THEN [panel_hist EXCEPT !.pending = FALSE,
                                     !.pairs_done = panel_hist.pairs_done + 1]
             ELSE panel_hist

\* An end_frame that never drops the oldest frame time.
EndFrameUnbounded ==
    /\ panel_op' = "end_frame"
    /\ IF ~panel.enabled \/ panel.paused
       THEN UNCHANGED <<panel, perf_atomics>>
       ELSE IF panel.frame_start
            THEN RecordFrame(MaxFrames)
            ELSE UNCHANGED <<panel, perf_atomics>>
    /\ EndFrameHistory
    /\ UNCHANGED exceptPanel

\* PerformancePanel::end_frame
EndFrame ==
    /\ panel_op' = "end_frame"
    /\ IF ~panel.enabled \/ panel.paused
       THEN UNCHANGED <<panel, perf_atomics>>
       ELSE IF panel.frame_start
            THEN RecordFrame(WINDOW_SIZE)
            ELSE UNCHANGED <<panel, perf_atomics>>
    /\ EndFrameHistory
    /\ UNCHANGED exceptPanel

\* PerformancePanel::reset
Reset ==
    /\ panel_op' = "reset"
    /\ panel' = [panel EXCEPT !.frame_times = <<>>, !.metrics = 0, !.total_frames = 0]
    /\ panel_hist' = [panel_hist EXCEPT !.pairs_done = 0]
    /\ UNCHANGED <<perf_atomics, exceptPanel>>

\* The Pause / Resume button.
TogglePaused ==
    /\ panel_op' = "toggle"
    /\ panel' = [panel EXCEPT !.paused = ~panel.paused]
    /\ UNCHANGED <<panel_hist, perf_atomics, exceptPanel>>

\* The owner of the panel shows or hides it.
ToggleEnabled ==
    /\ panel_op' = "toggle"
    /\ panel' = [panel EXCEPT !.enabled = ~panel.enabled]
    /\ UNCHANGED <<panel_hist, perf_atomics, exceptPanel>>

\* The viewer counts an event in performance_metrics.
CountMetric ==
    /\ perf_atomics < MaxMetric
    /\ perf_atomics' = perf_atomics + 1
    /\ panel_op' = NoPanelOp
    /\ UNCHANGED <<panel, panel_hist, exceptPanel>>

\* ------------------------------------------- flush_blocking's hand-off
\* flush_blocking statement by statement, for the threads in Flushers, with the
\* rendezvous channel of each call: its rx end stays with the flushing thread, its
\* tx end travels in the callback of the Flush envelope.  A send on a rendezvous
\* channel waits for the receiver to take the unit, and fails once the rx end is
\* dropped; recv_timeout takes the unit of a waiting sender, or gives up.
Flushers == 1..MaxFlushers

NoFlusher == 0

\* let (tx, rx) = std::sync::mpsc::sync_channel(0)
FlushCreate(f) ==
    /\ flusher[f].pc = "idle"
    /\ flusher' = [flusher EXCEPT ![f].pc = "created"]
    /\ oneshot' = [oneshot EXCEPT ![f] = [tx |-> "callback", rx |-> TRUE]]
    /\ UNCHANGED <<flush_queue, receiver, exceptHandoff>>

\* self.tx.send(SmartMessage { .. Flush { on_flush_done } }): the envelope is
\* queued, or the call returns Closed and drops both ends.
FlushSend(f) ==
    /\ flusher[f].pc = "created"
    /\ IF receiver.alive
       THEN /\ flush_queue' = Append(flush_queue, f)
            /\ flusher' = [flusher EXCEPT ![f].pc = "sent"]
            /\ UNCHANGED oneshot
       ELSE /\ flusher' = [flusher EXCEPT ![f] = [pc |-> "returned", ret |-> "Closed"]]
            /\ oneshot' = [oneshot EXCEPT ![f] = [tx |-> "dropped", rx |-> FALSE]]
            /\ UNCHANGED flush_queue
    /\ UNCHANGED <<receiver, exceptHandoff>>

\* The thread enters rx.recv_timeout(timeout).
FlushEnterRecv(f) ==
    /\ flusher[f].pc = "sent"
    /\ flusher' = [flusher EXCEPT ![f].pc = "waiting"]
    /\ UNCHANGED <<oneshot, flush_queue, receiver, exceptHandoff>>

\* recv_timeout takes the unit from the callback waiting in tx.send: the hand-off.
\* flush_blocking returns Ok and drops rx.
HandoffRecvOk(f) ==
    /\ flusher[f].pc = "waiting"
    /\ oneshot[f].tx = "sending"
    /\ flusher' = [flusher EXCEPT ![f] = [pc |-> "returned", ret |-> "Ok"]]
    /\ oneshot' = [oneshot EXCEPT ![f] = [tx |-> "taken", rx |-> FALSE]]
    /\ UNCHANGED <<flush_queue, receiver, exceptHandoff>>

\* A timeout after which flush_blocking keeps its rx end.
HandoffRecvTimeoutKeepingRx(f) ==
    /\ flusher[f].pc = "waiting"
    /\ oneshot[f].tx # "dropped"
    /\ flusher' = [flusher EXCEPT ![f] = [pc |-> "returned", ret |-> "Timeout"]]
    /\ UNCHANGED <<oneshot, flush_queue, receiver, exceptHandoff>>

\* The timeout elapses before recv_timeout has taken a unit, whether the callback
\* has reached tx.send or not. flush_blocking returns Timeout and drops rx.
HandoffRecvTimeout(f) ==
    /\ flusher[f].pc = "waiting"
    /\ oneshot[f].tx # "dropped"
    /\ flusher' = [flusher EXCEPT ![f] = [pc |-> "returned", ret |-> "Timeout"]]
    /\ oneshot' = [oneshot EXCEPT ![f].rx = FALSE]
    /\ UNCHANGED <<flush_queue, receiver, exceptHandoff>>

\* The callback was dropped without having sent: recv_timeout finds the channel
\* disconnected. flush_blocking returns Closed and drops rx.
HandoffRecvDisconnected(f) ==
    /\ flusher[f].pc = "waiting"
    /\ oneshot[f].tx = "dropped"
    /\ flusher' = [flusher EXCEPT ![f] = [pc |-> "returned", ret |-> "Closed"]]
    /\ oneshot' = [oneshot EXCEPT ![f].rx = FALSE]
    /\ UNCHANGED <<flush_queue, receiver, exceptHandoff>>

\* The Receiver dequeues a Flush envelope and invokes on_flush_done, which calls
\* tx.send(()).
CallbackInvoke ==
    /\ receiver.alive
    /\ receiver.calling = NoFlusher
    /\ flush_queue # <<>>
    /\ receiver' = [receiver EXCEPT !.calling = Head(flush_queue)]
    /\ flush_queue' = Tail(flush_queue)
    /\ oneshot' = [oneshot EXCEPT ![Head(flush_queue)].tx = "sending"]
    /\ UNCHANGED <<flusher, exceptHandoff>>

\* tx.send(()) returns Ok, the unit having been taken; .ok() discards the result
\* and the callback returns, dropping tx.
CallbackSendOk ==
    /\ receiver.calling # NoFlusher
    /\ oneshot[receiver.calling].tx = "taken"
    /\ oneshot' = [oneshot EXCEPT ![receiver.calling].tx = "dropped"]
    /\ receiver' = [receiver EXCEPT !.calling = NoFlusher]
    /\ UNCHANGED <<flusher, flush_queue, exceptHandoff>>

\* tx.send(()) returns Err, the rx end being dropped; .ok() discards the result
\* and the callback returns, dropping tx.
CallbackSendErr ==
    /\ receiver.calling # NoFlusher
    /\ oneshot[receiver.calling].tx = "sending"
    /\ ~oneshot[receiver.calling].rx
    /\ oneshot' = [oneshot EXCEPT ![receiver.calling].tx = "dropped"]
    /\ receiver' = [receiver EXCEPT !.calling = NoFlusher]
    /\ UNCHANGED <<flusher, flush_queue, exceptHandoff>>

\* The Receiver is dropped between two envelopes: the envelopes still queued are
\* dropped, and their callbacks with them.
HandoffDropReceiver ==
    /\ receiver.alive
    /\ receiver.calling = NoFlusher
    /\ receiver' = [receiver EXCEPT !.alive = FALSE]
    /\ flush_queue' = <<>>
    /\ oneshot' = [f \in Flushers |->
                    IF \E i \in 1..Len(flush_queue) : flush_queue[i] = f
                    THEN [oneshot[f] EXCEPT !.tx = "dropped"]
                    ELSE oneshot[f]]
    /\ UNCHANGED <<flusher, exceptHandoff>>

\* ------------------------------------------------------- specification
\* The channel pair as created: one Sender, one Receiver, an empty transport,
\* both counters at 0.
ChannelCreated ==
    /\ source = [s \in Handles |-> IF s = 1 THEN "File" ELSE "none"]
    /\ refs = [s \in Handles |-> IF s = 1 THEN [tx |-> 1, stats |-> 1] ELSE NoRefs]
    /\ transport = <<>>
    /\ rx_alive = TRUE
    /\ queue_bytes = 0
    /\ latency_nanos = 0
    /\ pc = [s \in Handles |-> IF s = 1 THEN "idle" ELSE "none"]
    /\ pend = [s \in Handles |-> NoCall]
    /\ res = NoRes
    /\ rpc = "idle"
    /\ hand = NoEnv
    /\ debug_assertions \in BOOLEAN
    /\ ctrl_bytes \in 0..MaxCtrl
    /\ enq_count = 0
    /\ drained = {}
    /\ last_from = [s \in Handles |-> 0]
    /\ invoked = [e \in 1..MaxCalls |-> NotFlush]
    /\ exact = TRUE
    /\ quit_at = [s \in Handles |-> 0]
    /\ net_bytes = 0

\* The channel pair as created, with the whole budget of calls ahead.
ChannelInit == ChannelCreated /\ calls = 0

\* IngestionWorker::new: both channels empty, the thread spawned.
WorkerInit ==
    /\ handle_alive = TRUE
    /\ input_queue = <<>>
    /\ output_queue = <<>>
    /\ worker_pc = "spawned"
    /\ work = NoItem
    /\ sub_pc = "idle"
    /\ sub_item = NoItem
    /\ poll_pc = "idle"
    /\ chunks = <<>>
    /\ submitted = 0
    /\ decoded = <<>>
    /\ polled = <<>>
    /\ poll_seen = <<>>
    /\ items = <<>>

\* VisualizableEntitiesCache::default: no entry.
VisInit ==
    /\ vis_cache = {}
    /\ vis_ret = NoVisRet

\* AnnotationMapCache::default: nothing cached.
AnnInit ==
    /\ ann_cached = NoArcs
    /\ ann_arcs = 0
    /\ ann_ret = NoAnnRet
    /\ ann_given = NoArcs

\* PerformancePanel::new: hidden, collecting, no frame started or recorded.
PanelInit ==
    /\ panel = [enabled |-> FALSE, paused |-> FALSE, frame_times |-> <<>>,
                frame_start |-> FALSE, total_frames |-> 0, metrics |-> 0]
    /\ perf_atomics = 0
    /\ panel_op = NoPanelOp
    /\ panel_hist = [pending |-> FALSE, pairs_done |-> 0, ignored |-> FALSE]

\* No thread has called flush_blocking; the Receiver exists and is idle.
HandoffInit ==
    /\ flusher = [f \in Flushers |-> [pc |-> "idle", ret |-> "none"]]
    /\ oneshot = [f \in Flushers |-> [tx |-> "none", rx |-> FALSE]]
    /\ flush_queue = <<>>
    /\ receiver = [alive |-> TRUE, calling |-> NoFlusher]

ViewerInit == VisInit /\ AnnInit /\ PanelInit /\ HandoffInit

Init == ChannelInit /\ WorkerInit /\ ViewerInit

ChannelNext ==
    \/ \E s \in Handles, msg \in MsgPayloads : Send(s, msg)
    \/ \E s \in Handles, msg \in MsgPayloads : SendTracking(s, msg)
    \/ \E s \in Handles, p \in ForwardPayloads :
            \E src \in ForwardSources(s) : SendAtTracking(s, src, p)
    \/ \E s \in Handles, p \in ForwardPayloads, size \in 0..MaxSize :
            \E src \in ForwardSources(s) : SendAtWithSize(s, src, p, size)
    \/ \E s \in Handles : SendAtWithSizeTx(s)
    \/ \E s \in Handles : SendAtWithSizeUndo(s)
    \/ \E s \in Handles, time \in Times, p \in ForwardPayloads :
            \E src \in ForwardSources(s) : SendAt(s, time, src, p)
    \/ \E s \in Handles : FlushBlocking(s)
    \/ \E s \in Handles : FlushRecvOk(s)
    \/ \E s \in Handles : FlushRecvTimeout(s)
    \/ \E s \in Handles : FlushRecvDisconnected(s)
    \/ \E s \in Handles, err \in QuitPayloads : Quit(s, err)
    \/ \E s \in Handles, src \in CloneSources : CloneAs(s, src)
    \/ RecvDequeue
    \/ \E elapsed \in 0..MaxElapsed : RecvHandle(elapsed)
    \/ DropReceiver
    \/ DiscardAllMessages

WorkerNext ==
    \/ SubmitArrowMsgBlocking
    \/ SubmitSend
    \/ PollProcessedChunks
    \/ PollTryRecv
    \/ WorkerStart
    \/ WorkerRecv
    \/ WorkerProcess
    \/ WorkerSend
    \/ DropIngestionWorker

VisNext ==
    \/ \E view \in Views, recording \in Generations, maybe_visualizable \in MaybeVisualizable :
            GetOrDetermine(view, recording, maybe_visualizable)
    \/ CacheClear
    \/ \E view_id \in ViewIds : CacheRemove(view_id)

AnnNext ==
    \/ \E query \in Queries : AnnGet(query)
    \/ AnnBeginFrame
    \/ AnnPurgeMemory
    \/ \E events \in SUBSET EventChunks : AnnOnStoreEvents(events)

PanelNext ==
    \/ BeginFrame
    \/ EndFrame
    \/ Reset
    \/ TogglePaused
    \/ ToggleEnabled
    \/ CountMetric

HandoffNext ==
    \/ \E f \in Flushers : FlushCreate(f)
    \/ \E f \in Flushers : FlushSend(f)
    \/ \E f \in Flushers : FlushEnterRecv(f)
    \/ \E f \in Flushers : HandoffRecvOk(f)
    \/ \E f \in Flushers : HandoffRecvTimeout(f)
    \/ \E f \in Flushers : HandoffRecvDisconnected(f)
    \/ CallbackInvoke
    \/ CallbackSendOk
    \/ CallbackSendErr
    \/ HandoffDropReceiver

Next == ChannelNext

\* The smart channel: any number of Sender threads and the Receiver.
Spec == Init /\ [][Next]_vars

\* flush_blocking's thread wakes from rx.recv_timeout, whichever way.
FlushWake(s) == FlushRecvOk(s) \/ FlushRecvTimeout(s) \/ FlushRecvDisconnected(s)

\* The smart channel with every thread inside flush_blocking scheduled fairly: it
\* returns from recv_timeout once a unit, a disconnection or the timeout is there.
\* Nothing is assumed of the Receiver or of the other senders.
\* The budget of calls is MaxFairCalls here: the channel pair starts as created,
\* with the rest of the budget already spent.
FlushFairInit ==
    /\ ChannelCreated
    /\ calls = MaxCalls - MaxFairCalls
    /\ WorkerInit
    /\ ViewerInit

FlushFairSpec ==
    /\ FlushFairInit
    /\ [][Next]_vars
    /\ \A s \in Handles : WF_vars(FlushWake(s))

\* The visualizable entities cache under any sequence of calls.
VisCacheSpec == Init /\ [][VisNext]_vars

\* The annotation map cache under any sequence of calls.
AnnCacheSpec == Init /\ [][AnnNext]_vars

\* The performance panel under any sequence of calls, with the viewer counting
\* events in between.
PanelSpec == Init /\ [][PanelNext]_vars

\* flush_blocking's hand-off: the flushing threads and the Receiver, in any
\* interleaving.
HandoffSpec == Init /\ [][HandoffNext]_vars

\* rx.recv_timeout returns, whichever way.
HandoffWake(f) == HandoffRecvOk(f) \/ HandoffRecvTimeout(f) \/ HandoffRecvDisconnected(f)

\* The hand-off with the flushing threads scheduled fairly (a thread that has sent
\* its Flush envelope enters recv_timeout, and recv_timeout returns once a unit, a
\* disconnection or the timeout is there) and with tx.send returning once the rx
\* end is dropped. Nothing is assumed of when the Receiver dequeues.
HandoffFairSpec ==
    /\ HandoffSpec
    /\ \A f \in Flushers : WF_vars(FlushEnterRecv(f))
    /\ \A f \in Flushers : WF_vars(HandoffWake(f))
    /\ WF_vars(CallbackSendOk)
    /\ WF_vars(CallbackSendErr)

\* The ingestion worker: the submitting thread, the polling thread and the worker.
WorkerSpec == Init /\ [][WorkerNext]_vars

\* The ingestion worker with the worker thread scheduled fairly: a step of
\* worker_loop that can be taken is eventually taken.
WorkerFairSpec ==
    /\ WorkerSpec
    /\ WF_vars(WorkerStart)
    /\ WF_vars(WorkerRecv)
    /\ WF_vars(WorkerProcess)
    /\ WF_vars(WorkerSend)

\* The ingestion worker with the worker thread and the thread inside
\* submit_arrow_msg_blocking scheduled fairly: input_tx.send returns once the queue
\* has room. Nothing is assumed of the polling caller.
SubmitFairSpec == WorkerFairSpec /\ WF_vars(SubmitSend)

\* ---------------------------------------------------------- properties
\* The operations that end in tx.send and return its error with the payload.
SendOps == {"send_at_with_size", "send_at", "quit"}

\* No send and no receive is in progress.
Quiescent == rpc = "idle" /\ \A s \in Handles : ~Busy(s)

\* Every envelope ever enqueued is still resident or was handled by the Receiver.
NoneDestroyed == \A e \in 1..enq_count : Resident(e) \/ e \in drained

RECURSIVE SumSizes(_)
\* The sum of the measured sizes of the envelopes in q.
SumSizes(q) ==
    IF q = <<>> THEN 0 ELSE TotalSizeBytes(Head(q)) + SumSizes(Tail(q))

\* C1: a send_at_with_size call that fails because the Receiver is gone, with
\* nothing else running during the call, leaves queue_bytes at the value it had
\* when the call began.
C1_FailedSendRestoresQueueBytes ==
    (res.op = "send_at_with_size" /\ res.status = "Err" /\ res.pre # Disturbed)
        => queue_bytes = res.pre

\* A failed send of a positive size, on a counter that was not 0, just returned.
C1_Witness ==
    /\ res.op = "send_at_with_size"
    /\ res.status = "Err"
    /\ res.pre # Disturbed
    /\ res.pre > 0
    /\ res.size > 0

\* C2 as stated: in every quiescent state queue_bytes is the sum of the measured
\* sizes of the envelopes in the transport.
C2_QuiescentBytesAnySends ==
    Quiescent => queue_bytes = SumSizes(transport) % Modulus

\* C2, amended: in every quiescent state in which each enqueued envelope was
\* tracked at its measured size and none was destroyed unreceived, queue_bytes
\* is the sum of the measured sizes of the envelopes in the transport.
C2_QuiescentBytesTrackedSends ==
    (Quiescent /\ exact /\ NoneDestroyed)
        => queue_bytes = SumSizes(transport) % Modulus

\* After sends and receives, envelopes of positive size are resident and counted.
C2_Witness ==
    /\ Quiescent
    /\ exact
    /\ NoneDestroyed
    /\ drained # {}
    /\ transport # <<>>
    /\ queue_bytes > 0

\* C3: when flush_blocking returns Ok, every envelope enqueued before its Flush
\* envelope has been handled by the Receiver and none is still in the transport.
C3_FlushOkAfterEarlierDrained ==
    (res.op = "flush_blocking" /\ res.status = "Ok")
        => \A e \in 1..(res.eid - 1) : e \in drained /\ ~Resident(e)

\* flush_blocking returned Ok with two envelopes enqueued ahead of its Flush.
C3_Witness ==
    /\ res.op = "flush_blocking"
    /\ res.status = "Ok"
    /\ res.eid >= 3

\* C4 as stated: the callback of every Flush envelope is invoked exactly once, not
\* before the envelopes ahead of it are drained; once the envelope has left the
\* transport it has been invoked.
C4_FlushCallbackExactlyOnce ==
    \A e \in 1..MaxCalls :
        invoked[e] # NotFlush =>
            /\ invoked[e] <= 1
            /\ invoked[e] = 1 => \A d \in 1..(e - 1) : d \in drained
            /\ (e <= enq_count /\ ~Resident(e)) => invoked[e] = 1

\* C4, amended: the callback of a Flush envelope is invoked at most once, exactly
\* when the Receiver handles the envelope, hence not before the envelopes ahead
\* of it are drained; an envelope destroyed unreceived is never invoked.
C4_FlushCallbackOnceIfDrained ==
    \A e \in 1..MaxCalls :
        invoked[e] # NotFlush =>
            /\ invoked[e] \in {0, 1}
            /\ invoked[e] = 1 <=> e \in drained
            /\ invoked[e] = 1 => \A d \in 1..(e - 1) : d \in drained /\ ~Resident(d)

\* One Flush callback ran behind an earlier envelope, another Flush envelope was
\* destroyed unreceived.
C4_Witness ==
    \E e, f \in 1..MaxCalls :
        /\ e >= 2
        /\ invoked[e] = 1
        /\ f <= enq_count
        /\ invoked[f] = 0
        /\ ~Resident(f)

\* C5: the envelope the Receiver dequeues was sent after every envelope of the same
\* handle it has handled, and before every envelope of that handle still in the
\* transport.
C5_PerSenderFifo ==
    rpc = "holding" =>
        /\ hand.eid > last_from[hand.from]
        /\ \A i \in 1..Len(transport) :
              transport[i].from = hand.from => transport[i].eid > hand.eid

\* The Receiver dequeues the second envelope of one handle, having handled an
\* envelope another handle sent in between.
C5_Witness ==
    \E s, t \in Handles :
        /\ s # t
        /\ rpc = "holding"
        /\ hand.from = s
        /\ last_from[s] > 0
        /\ last_from[s] < last_from[t]
        /\ last_from[t] < hand.eid

\* C6: a quit call changes nothing but the tail of the transport and its own
\* handle's position, and a send on another handle after it succeeds as long as
\* the Receiver exists.
C6_QuitLeavesOthersAlone ==
    [][/\ res'.op = "quit" =>
            /\ rx_alive' = rx_alive
            /\ queue_bytes' = queue_bytes
            /\ latency_nanos' = latency_nanos
            /\ source' = source
            /\ \A t \in Handles \ {res'.by} : pc'[t] = pc[t]
            /\ Len(transport') >= Len(transport)
            /\ SubSeq(transport', 1, Len(transport)) = transport
       /\ (/\ res'.op \in SendOps
           /\ rx_alive
           /\ \E s \in Handles \ {res'.by} : quit_at[s] > 0)
            => res'.status \in {"Ok", "Panic"}]_vars

\* After quit on one handle was received, the Receiver dequeues a message that
\* another handle sent later.
C6_Witness ==
    \E s, t \in Handles :
        /\ s # t
        /\ quit_at[s] > 0
        /\ quit_at[s] \in drained
        /\ rpc = "holding"
        /\ hand.from = t
        /\ hand.kind = "Msg"
        /\ hand.eid > quit_at[s]

\* The submitter is inside input_tx.send and the worker has not exited.
Submitting == sub_pc = "sending" /\ worker_pc # "exited"

\* The worker has removed nothing from the input queue.
NothingRemoved ==
    Len(input_queue) = (IF sub_pc = "sending" THEN submitted - 1 ELSE submitted)

\* C7: the input queue never holds more than Capacity items; a submit returns
\* exactly when the queue has room, so with nothing removed the first Capacity
\* submits return and the next one blocks until the worker removes an item.
C7_InputQueueBounded ==
    /\ Len(input_queue) <= Capacity
    /\ Submitting => (ENABLED SubmitSend <=> Len(input_queue) < Capacity)
    /\ (Submitting /\ NothingRemoved) => (ENABLED SubmitSend <=> submitted <= Capacity)

\* The submit after Capacity unremoved items is blocked on the full queue.
C7_Witness ==
    /\ Submitting
    /\ NothingRemoved
    /\ submitted = Capacity + 1
    /\ Len(input_queue) = Capacity
    /\ ~ENABLED SubmitSend

IsOk(d) == d.ok

Ids(q) == [i \in 1..Len(q) |-> q[i].id]

\* The work items the worker holds or has finished, and those still to come.
Accounted ==
    Len(decoded) + Len(input_queue) + (IF work = NoItem THEN 0 ELSE 1)
        + (IF sub_pc = "sending" THEN 1 ELSE 0)

\* C8: while the IngestionWorker exists the worker thread has not exited, no
\* submitted item is lost, and the results produced so far are those of the
\* items that decoded, one each, in order: a failing item yields none.
C8_DecodeFailureIsLocal ==
    handle_alive =>
        /\ worker_pc # "exited"
        /\ Accounted = submitted
        /\ Ids(polled \o chunks \o output_queue) = Ids(SelectSeq(decoded, IsOk))

\* A failing item then a succeeding one gave exactly one result, and a third item
\* has been accepted.
C8_Witness ==
    /\ handle_alive
    /\ Len(decoded) = 2
    /\ ~decoded[1].ok
    /\ decoded[2].ok
    /\ Len(polled) = 1
    /\ polled[1].id = 2
    /\ Len(input_queue) = 1

\* C9: send_at_with_size, send_at and quit return an error only when the Receiver
\* is gone, then with the payload they were given and the transport untouched;
\* with the Receiver gone they never return Ok; the only other way out is the
\* debug assertion on an Unknown source.
C9_SendErrorOnlyWhenClosed ==
    [][/\ (res'.op \in SendOps /\ res'.status = "Err") =>
            /\ ~rx_alive
            /\ transport' = transport
            /\ res'.ret = res'.arg
            /\ res'.ret # NoPayload
       /\ \A s \in Handles : (pc[s] = "sending" /\ pc'[s] = "rollback") =>
            /\ ~rx_alive
            /\ transport' = transport
       /\ (res'.op \in SendOps /\ res'.status = "Ok") =>
            /\ rx_alive
            /\ Len(transport') = Len(transport) + 1
       /\ (res'.op \in SendOps /\ res'.status = "Panic") =>
            /\ debug_assertions
            /\ res'.src = "Unknown"
            /\ transport' = transport
       /\ res'.op \in SendOps => res'.status \in {"Ok", "Err", "Panic"}]_vars

\* quit failed on a torn-down channel and handed its error payload back.
C9_Witness ==
    /\ res.op = "quit"
    /\ res.status = "Err"
    /\ ~rx_alive
    /\ res.ret = res.arg
    /\ res.ret.val = 1

\* What flush_blocking's three outcomes say about the Flush envelope.
FlushOutcome ==
    res.op = "flush_blocking" =>
        /\ res.status \in {"Ok", "Closed", "Timeout"}
        /\ res.status = "Ok" => (res.eid # 0 /\ invoked[res.eid] = 1)
        /\ res.status = "Closed" =>
              \/ res.eid = 0 /\ ~rx_alive
              \/ /\ res.eid # 0
                 /\ invoked[res.eid] = 0
                 /\ ~Resident(res.eid)
        /\ res.status = "Timeout" =>
              (res.eid # 0 /\ invoked[res.eid] = 0 /\ Resident(res.eid))
        /\ res.status = "Closed" => ~(rx_alive /\ Resident(res.eid))

\* C10 as stated: the three outcomes, and Timeout is never returned once the
\* Receiver is gone.
C10_FlushOutcomesNoTimeoutWhenClosed ==
    /\ FlushOutcome
    /\ (res.op = "flush_blocking" /\ res.status = "Timeout") => rx_alive

\* C10, amended: flush_blocking returns Ok only if the callback fired, Closed only
\* if the Receiver was gone at the send or the Flush envelope was destroyed
\* uninvoked, Timeout only while the envelope is still pending uninvoked (be the
\* Receiver gone or not); Closed is never returned while the envelope is pending
\* in an open transport.
C10_FlushOutcomes ==
    /\ FlushOutcome
    /\ (res.op = "flush_blocking" /\ res.status = "Timeout" /\ ~rx_alive)
            => \E i \in 1..Len(transport) : transport[i].eid = res.eid

\* C10_Witness: flush_blocking timed out after the Receiver was dropped.
C10_Witness ==
    /\ res.op = "flush_blocking"
    /\ res.status = "Timeout"
    /\ ~rx_alive

\* A send_at_with_size call on s is past its fetch_add and will fail, the Receiver
\* having gone before it began, and nothing else has run since it began.
FailingAlone(s) ==
    /\ pc[s] \in {"sending", "rollback"}
    /\ ~rx_alive
    /\ pend[s].pre # Disturbed

\* C11 as stated: while a failing send_at_with_size call is in progress, a reader
\* on another clone sees queue_bytes without the size of the envelope that is never
\* inserted.
C11_ReaderNeverSeesFailedSize ==
    \A s, t \in Handles :
        (FailingAlone(s) /\ t # s /\ pc[t] = "idle")
            => QueueBytes(t) = pend[s].pre

\* C11, amended: between the fetch_add and the fetch_sub of a failing
\* send_at_with_size call a reader on another clone sees queue_bytes with exactly
\* the call's size added; once the call has returned every clone reads the value
\* from before the call.
C11_FailedSizeSeenOnlyDuringCall ==
    /\ \A s, t \in Handles :
          (FailingAlone(s) /\ t # s /\ pc[t] = "idle")
              => QueueBytes(t) = (pend[s].pre + pend[s].size) % Modulus
    /\ (res.op = "send_at_with_size" /\ res.status = "Err" /\ res.pre # Disturbed)
          => \A t \in Handles : pc[t] # "none" => QueueBytes(t) = res.pre

\* A send of positive size has failed and not yet rolled back, while another clone
\* is free to read the counter.
C11_Witness ==
    \E s, t \in Handles :
        /\ FailingAlone(s)
        /\ pc[s] = "rollback"
        /\ pend[s].size > 0
        /\ t # s
        /\ pc[t] = "idle"
        /\ QueueBytes(t) # pend[s].pre

\* C12 as stated: no envelope on the transport, or dequeued from it, has the source
\* Unknown.
C12_NoUnknownOnTransport ==
    /\ \A i \in 1..Len(transport) : transport[i].source # "Unknown"
    /\ hand.source # "Unknown"

IsPrefix(a, b) == Len(a) <= Len(b) /\ SubSeq(b, 1, Len(a)) = a

\* The results that have been or can still be handed to a caller: those returned
\* by a poll, those a poll in progress holds, and those in the output queue while
\* there is an IngestionWorker to poll.
Retrievable ==
    polled \o chunks \o (IF handle_alive THEN output_queue ELSE <<>>)

\* C13 as stated: no step, the teardown of the IngestionWorker included, takes
\* away a result that was pushed to the output queue and not yet polled.
C13_TeardownKeepsUnpolledResults ==
    [][IsPrefix(Ids(Retrievable), Ids(Retrievable'))]_vars

\* C14: once the IngestionWorker has been dropped, the worker thread eventually
\* leaves worker_loop.
C14_WorkerExitsAfterDrop == (~handle_alive) ~> (worker_pc = "exited")

\* The worker has left the loop after the IngestionWorker was dropped, its last
\* item a failed decode: it left through recv reporting the closed, empty queue.
C14_Witness ==
    /\ ~handle_alive
    /\ worker_pc = "exited"
    /\ Len(decoded) >= 2
    /\ ~decoded[Len(decoded)].ok
    /\ input_queue = <<>>

C16_SubmitIgnoresDecodeOutcome ==
    [][(sub_pc = "sending" /\ sub_pc' = "idle") =>
            IF worker_pc = "exited"
            THEN ~handle_alive /\ input_queue' = input_queue
            ELSE input_queue' = Append(input_queue, sub_item)]_vars

\* After a decode failure, an item that will not decode has been accepted.
C16_Witness ==
    /\ sub_pc = "idle"
    /\ Len(decoded) >= 1
    /\ ~decoded[1].ok
    /\ input_queue # <<>>
    /\ ~input_queue[Len(input_queue)].ok

\* The envelope at the tail of transport q.
Last(q) == q[Len(q)]

\* C17: the envelope a successful quit enqueues is a Quit envelope carrying the
\* source of the handle quit was called on and the error it was given; a Quit
\* envelope the Receiver holds carries its sender's source, and handling it gives
\* the Receiver's caller that source and that error.
C17_QuitCarriesOwnProvenance ==
    [][/\ (res'.op = "quit" /\ res'.status = "Ok") =>
            /\ Last(transport').kind = "Quit"
            /\ Last(transport').from = res'.by
            /\ Last(transport').source = source[res'.by]
            /\ Last(transport').val = res'.arg.val
       /\ (rpc = "holding" /\ hand.kind = "Quit") =>
            hand.source = source[hand.from]
       /\ (rpc = "holding" /\ rpc' = "idle" /\ hand.kind = "Quit") =>
            /\ res'.op = "recv"
            /\ res'.src = hand.source
            /\ res'.arg = [kind |-> "Quit", val |-> hand.val]]_vars

\* The Receiver's caller was just given the Quit of a clone, with an error and with
\* the clone's source, which is not the source of the handle it was cloned from.
C17_Witness ==
    \E s \in Handles :
        /\ res.op = "recv"
        /\ res.arg = [kind |-> "Quit", val |-> 1]
        /\ quit_at[s] = res.eid
        /\ res.src = source[s]
        /\ source[s] # source[1]

\* C18: clone_as(src) on handle s makes a handle with the channel and the
\* SharedStats of s and the source src, and changes no other handle; all handles
\* read the same counters; the envelopes of send, flush_blocking and quit carry
\* the source of the handle they were called on.
C18_CloneSharesChannelOwnSource ==
    [][/\ \A s \in Handles, src \in CloneSources :
            CloneAs(s, src) =>
                \E n \in Handles :
                    /\ pc[n] = "none"
                    /\ pc'[n] = "idle"
                    /\ source'[n] = src
                    /\ refs'[n] = refs[s]
                    /\ \A t \in Handles \ {n} :
                          source'[t] = source[t] /\ refs'[t] = refs[t]
       /\ \A s, t \in Handles :
            (pc[s] # "none" /\ pc[t] # "none") =>
                /\ refs[s] = refs[t]
                /\ QueueBytes(s) = QueueBytes(t)
                /\ LatencyNanos(s) = LatencyNanos(t)
                /\ len(s) = len(t)
       /\ \A s \in Handles, msg \in MsgPayloads :
            (Send(s, msg) /\ pc'[s] = "sending") => pend'[s].source = source[s]
       /\ \A s \in Handles :
            (pc[s] = "sending" /\ pc'[s] = "idle" /\ res'.status = "Ok") =>
                /\ Last(transport').from = s
                /\ Last(transport').source = pend[s].source
       /\ \A s \in Handles :
            (pc[s] = "idle" /\ pc'[s] = "flush_wait") =>
                /\ Last(transport').from = s
                /\ Last(transport').source = source[s]
       /\ (res'.op = "quit" /\ res'.status = "Ok") =>
                Last(transport').source = source[res'.by]]_vars

\* The transport holds an envelope of the first handle and one of a clone with
\* another source, each tagged with its own handle's source, both counted in
\* queue_bytes.
C18_Witness ==
    \E i, j \in 1..Len(transport) :
        /\ transport[i].from = 1
        /\ transport[i].source = source[1]
        /\ transport[j].from = 2
        /\ transport[j].source = source[2]
        /\ source[2] # source[1]
        /\ QueueBytes(1) = 2

C20_FlushReturns ==
    \A s \in Handles :
        (pc[s] \in {"flush_wait", "flush_fired", "flush_disc"}) ~> (pc[s] = "idle")

\* flush_blocking returned by its timeout with its Flush envelope behind another
\* envelope in the transport of a Receiver that has drained nothing.
C20_Witness ==
    /\ res.op = "flush_blocking"
    /\ res.status = "Timeout"
    /\ rx_alive
    /\ drained = {}
    /\ Len(transport) >= 2
    /\ \E i \in 2..Len(transport) : transport[i].eid = res.eid

\* C21: every step of a send on a handle on which quit was called before keeps the
\* accounting exact: the fetch_add adds the size given and touches no envelope,
\* tx.send appends one envelope of that handle behind the resident ones and leaves
\* queue_bytes alone, the undo subtracts the size given; a send that ran alone
\* returns with queue_bytes at its value before the call plus its size (Ok) or at
\* that value (Err).
C21_SendAfterQuitKeepsAccounting ==
    [][/\ \A s \in Handles :
            quit_at[s] # 0 =>
                /\ (pc[s] = "idle" /\ pc'[s] = "sending") =>
                      /\ queue_bytes' = (queue_bytes + pend'[s].size) % Modulus
                      /\ transport' = transport
                      /\ hand' = hand
                /\ (pc[s] = "sending" /\ pc'[s] = "idle") =>
                      /\ queue_bytes' = queue_bytes
                      /\ Len(transport') = Len(transport) + 1
                      /\ IsPrefix(transport, transport')
                      /\ Last(transport').from = s
                      /\ hand' = hand
                /\ (pc[s] = "sending" /\ pc'[s] = "rollback") =>
                      /\ queue_bytes' = queue_bytes
                      /\ transport' = transport
                      /\ hand' = hand
                /\ (pc[s] = "rollback" /\ pc'[s] = "idle") =>
                      /\ queue_bytes' = (queue_bytes - pend[s].size) % Modulus
                      /\ transport' = transport
                      /\ hand' = hand
       /\ (/\ res'.op = "send_at_with_size"
           /\ res'.status \in {"Ok", "Err"}
           /\ quit_at[res'.by] # 0
           /\ res'.pre # Disturbed) =>
              queue_bytes' = IF res'.status = "Ok"
                             THEN (res'.pre + res'.size) % Modulus
                             ELSE res'.pre]_vars

\* A handle that quit earlier has just sent a message of positive size behind an
\* envelope of another clone, which is still in the transport.
C21_Witness ==
    /\ res.op = "send_at_with_size"
    /\ res.status = "Ok"
    /\ res.size > 0
    /\ quit_at[res.by] # 0
    /\ quit_at[res.by] < res.eid
    /\ \E i \in 1..Len(transport) :
          transport[i].from # res.by /\ transport[i].eid < res.eid

\* A handle that quit earlier has just had a send of positive size fail.
C21_FailedWitness ==
    /\ res.op = "send_at_with_size"
    /\ res.status = "Err"
    /\ res.size > 0
    /\ quit_at[res.by] # 0

\* C22: a submit_arrow_msg_blocking call that is inside input_tx.send eventually
\* returns, whether or not anything is ever polled.
C22_SubmitReturns == (sub_pc = "sending") ~> (sub_pc = "idle")

\* A submit waits on a full input queue while the chunk the worker has pushed
\* sits in the output queue and nothing was ever polled.
C22_Witness ==
    /\ sub_pc = "sending"
    /\ handle_alive
    /\ Len(input_queue) = Capacity
    /\ ~ENABLED SubmitSend
    /\ output_queue # <<>>
    /\ polled = <<>>
    /\ poll_pc = "idle"
    /\ worker_pc = "recv"

RECURSIVE SumTracked(_)
\* The sum of the sizes added to queue_bytes for the envelopes in q.
SumTracked(q) ==
    IF q = <<>> THEN 0 ELSE Head(q).tracked + SumTracked(Tail(q))

\* C23 as stated: in every state queue_bytes is at least the sum of the tracked
\* sizes of the envelopes in the transport.
C23_NeverUnderstates == queue_bytes >= SumTracked(transport)

\* C23, amended: as long as every envelope enqueued so far was tracked at its
\* measured size, queue_bytes is in every state at least the sum of the tracked
\* sizes of the envelopes in the transport.
C23_NeverUnderstatesTrackedSends ==
    exact => queue_bytes >= SumTracked(transport)

\* A send has added its size and not yet inserted its envelope, while a tracked
\* envelope is in the transport and the Receiver holds another it has not yet
\* accounted for: queue_bytes overstates.
C23_Witness ==
    /\ exact
    /\ \E s \in Handles : pc[s] = "sending" /\ pend[s].size > 0
    /\ SumTracked(transport) > 0
    /\ rpc = "holding"
    /\ hand.tracked > 0
    /\ queue_bytes > SumTracked(transport)

\* C24: whenever no send and no receive is in progress, queue_bytes is the sum of
\* the sizes of the send_at_with_size calls that succeeded less the sum of the
\* sizes the Receiver subtracted; failed sends and the other operations count
\* for nothing.
C24_NoLostUpdate == Quiescent => queue_bytes = net_bytes % Modulus

\* Both handles have sent tracked messages, one was received, one is resident, a
\* third send failed, and nothing is in progress.
C24_Witness ==
    /\ Quiescent
    /\ res.op = "send_at_with_size"
    /\ res.status = "Err"
    /\ res.size > 0
    /\ drained # {}
    /\ net_bytes = 1
    /\ \E i \in 1..Len(transport) :
          transport[i].tracked > 0 /\ last_from[transport[i].from] = 0

\* C25 as stated: every subtraction applied to queue_bytes (the Receiver's, of the
\* measured size of the envelope it handles, and the undo of a failed send) is at
\* most the value queue_bytes has.
C25_NeverWraps ==
    [][/\ (rpc = "holding" /\ rpc' = "idle") => TotalSizeBytes(hand) <= queue_bytes
       /\ \A s \in Handles :
            (pc[s] = "rollback" /\ pc'[s] = "idle") => pend[s].size <= queue_bytes]_vars

\* C25, amended: as long as every envelope enqueued so far was tracked at its
\* measured size, every subtraction applied to queue_bytes is at most the value
\* queue_bytes has.
C25_NeverWrapsTrackedSends ==
    [][exact =>
        /\ (rpc = "holding" /\ rpc' = "idle") => TotalSizeBytes(hand) <= queue_bytes
        /\ \A s \in Handles :
            (pc[s] = "rollback" /\ pc'[s] = "idle") =>
                pend[s].size <= queue_bytes]_vars

\* The Receiver has just subtracted the positive size of a tracked message and
\* brought queue_bytes to 0.
C25_Witness ==
    /\ exact
    /\ res.op = "recv"
    /\ res.arg.kind = "Msg"
    /\ res.arg.val > 0
    /\ queue_bytes = 0
    /\ net_bytes = 0

\* C26: the worker thread leaves worker_loop only from input_rx.recv() on an empty
\* queue whose sender is gone, or from output_tx.send whose receiver is gone; as
\* long as the IngestionWorker exists it has not left.
C26_WorkerRunsWhileHandleAlive ==
    [][/\ (worker_pc # "exited" /\ worker_pc' = "exited") =>
            \/ worker_pc = "recv" /\ input_queue = <<>> /\ ~handle_alive
            \/ worker_pc = "send" /\ ~handle_alive
       /\ handle_alive' => worker_pc' \in {"spawned", "recv", "process", "send"}]_vars

\* With the IngestionWorker alive the worker waits in recv on an empty input
\* queue, after a failed and a successful decode.
C26_Witness ==
    /\ handle_alive
    /\ worker_pc = "recv"
    /\ input_queue = <<>>
    /\ sub_pc = "idle"
    /\ \E i, j \in 1..Len(decoded) : ~decoded[i].ok /\ decoded[j].ok

\* C27 as stated: when the worker thread has left worker_loop, no work item is left
\* undecoded in the input queue.
C27_RemainingItemsDecoded == worker_pc = "exited" => input_queue = <<>>

\* v is strictly increasing.
Increasing(v) == \A i, j \in 1..Len(v) : i < j => v[i] < v[j]

\* C28: the results returned by the polls so far, in the order returned, are those
\* of the first successfully decoded items, in the order the items were submitted
\* (ids number the submissions); the result of a failed item is not among them.
C28_ResultsInSubmissionOrder ==
    /\ Increasing(Ids(decoded))
    /\ Increasing(Ids(polled \o chunks))
    /\ IsPrefix(Ids(polled \o chunks), Ids(SelectSeq(decoded, IsOk)))
    /\ \A i \in 1..Len(decoded), j \in 1..Len(polled) :
          ~decoded[i].ok => polled[j].id # decoded[i].id

\* Two polls have returned the results of the first and the third item; the
\* second item failed to decode.
C28_Witness ==
    /\ poll_pc = "idle"
    /\ Ids(polled) = <<1, 3>>
    /\ Len(decoded) >= 3
    /\ ~decoded[2].ok

\* The number of results of item id in q.
Count(q, id) == Cardinality({i \in 1..Len(q) : q[i].id = id})

\* C29: while the IngestionWorker exists, every item that was decoded successfully
\* has exactly one result among those returned by polls, held by the poll in
\* progress or waiting in the output queue, and at most one of them was returned;
\* a failed item has none; a step of a poll moves results without adding or
\* removing any.
C29_OneResultPerDecodedItem ==
    [][/\ handle_alive =>
            \A i \in 1..Len(decoded) :
                /\ Count(polled \o chunks \o output_queue, decoded[i].id)
                      = (IF decoded[i].ok THEN 1 ELSE 0)
                /\ Count(polled, decoded[i].id) <= 1
       /\ (poll_pc = "draining" /\ worker_pc' = worker_pc) =>
            polled' \o chunks' \o output_queue' = polled \o chunks \o output_queue]_vars

\* Three items were decoded; one result was returned by an earlier poll, one is
\* held by the poll in progress and one waits in the output queue.
C29_Witness ==
    /\ handle_alive
    /\ poll_pc = "draining"
    /\ Len(polled) = 1
    /\ Len(chunks) = 1
    /\ Len(output_queue) = 1
    /\ Len(SelectSeq(decoded, IsOk)) = 3

\* C30: flush_blocking returns Ok only when the callback of its own Flush envelope
\* has run; the callback of a Flush envelope wakes the call that sent it if that
\* call is still waiting, and changes the position of no other thread.
C30_FlushCompletedByOwnEnvelope ==
    [][/\ (res'.op = "flush_blocking" /\ res'.status = "Ok") =>
            /\ invoked[res'.eid] = 1
            /\ res'.eid \in drained
       /\ (rpc = "holding" /\ rpc' = "idle" /\ hand.kind = "Flush") =>
            \A t \in Handles :
                pc'[t] # pc[t] =>
                    /\ pc[t] = "flush_wait"
                    /\ pend[t].eid = hand.eid
                    /\ pc'[t] = "flush_fired"]_vars

\* The Receiver has just invoked the callback of a Flush envelope whose call had
\* returned Timeout, while a later flush_blocking call is waiting, and that call
\* is still waiting.
C30_Witness ==
    /\ res.op = "recv"
    /\ res.arg.kind = "Flush"
    /\ invoked[res.eid] = 1
    /\ \A t \in Handles : pend[t].eid # res.eid
    /\ \E t \in Handles : pc[t] = "flush_wait" /\ pend[t].eid > res.eid

\* C32: the step in which flush_blocking sends its Flush envelope and the steps in
\* which flush_blocking and quit return leave queue_bytes as it was; a Flush or
\* Quit envelope that was sent makes the transport one longer and carries no
\* tracked size, and a call that failed leaves the transport as it was.
C32_ControlEnvelopesUncounted ==
    [][/\ \A s \in Handles :
            (pc[s] = "idle" /\ pc'[s] = "flush_wait") =>
                /\ QueueBytes(s)' = QueueBytes(s)
                /\ len(s)' = len(s) + 1
                /\ Last(transport').kind = "Flush"
                /\ Last(transport').tracked = 0
       /\ res'.op \in {"flush_blocking", "quit"} =>
            /\ queue_bytes' = queue_bytes
            /\ net_bytes' = net_bytes
       /\ res'.op = "flush_blocking" => transport' = transport
       /\ (res'.op = "quit" /\ res'.status = "Ok") =>
            /\ Len(transport') = Len(transport) + 1
            /\ Last(transport').kind = "Quit"
            /\ Last(transport').tracked = 0
       /\ (res'.op = "quit" /\ res'.status # "Ok") => transport' = transport]_vars

\* quit has just put its envelope behind a tracked message and a Flush envelope:
\* len() is 3 and queue_bytes is the size of the message.
C32_Witness ==
    /\ res.op = "quit"
    /\ res.status = "Ok"
    /\ \A s \in Handles : pc[s] # "none" => len(s) = 3
    /\ transport[1].kind = "Msg"
    /\ transport[2].kind = "Flush"
    /\ queue_bytes = transport[1].tracked
    /\ queue_bytes > 0

\* C33: send_at leaves queue_bytes and latency_nanos as they were; when it returns
\* Ok the transport has gained one envelope, with the time, the source and the
\* payload given; when it fails the transport is as it was and the payload is
\* handed back.
C33_SendAtForwardsVerbatim ==
    [][res'.op = "send_at" =>
        /\ queue_bytes' = queue_bytes
        /\ latency_nanos' = latency_nanos
        /\ net_bytes' = net_bytes
        /\ res'.status = "Ok" =>
              /\ Len(transport') = Len(transport) + 1
              /\ IsPrefix(transport, transport')
              /\ Last(transport').time = res'.time
              /\ Last(transport').source = res'.src
              /\ Last(transport').kind = res'.arg.kind
              /\ Last(transport').val = res'.arg.val
              /\ Last(transport').tracked = 0
        /\ res'.status = "Err" =>
              /\ transport' = transport
              /\ res'.ret = res'.arg
        /\ res'.status = "Panic" => transport' = transport]_vars

\* send_at has just forwarded a message with a time that is not the time of the
\* call, while both counters are not 0.
C33_Witness ==
    /\ res.op = "send_at"
    /\ res.status = "Ok"
    /\ res.time # Now
    /\ transport[Len(transport)].time = res.time
    /\ queue_bytes > 0
    /\ latency_nanos > 0

\* The worker's lifecycle: 0 Idle (the thread is spawned and has not entered the
\* loop), 1 Running (in the loop, the IngestionWorker exists), 2 Draining (in the
\* loop, the IngestionWorker dropped), 3 Stopped (the loop is left).
Phase ==
    IF worker_pc = "exited" THEN 3
    ELSE IF worker_pc = "spawned" THEN 0
    ELSE IF handle_alive THEN 1 ELSE 2

\* C34: the worker's lifecycle never goes back; it passes from Running to Draining
\* only in the step that drops the IngestionWorker, it stops only from Draining,
\* and once stopped nothing is decoded, pushed or taken from the input queue.
C34_LifecycleInOrder ==
    [][/\ Phase' >= Phase
       /\ (Phase = 1 /\ Phase' # 1) => (Phase' = 2 /\ handle_alive /\ ~handle_alive')
       /\ (Phase # 3 /\ Phase' = 3) => Phase = 2
       /\ Phase = 3 =>
            /\ Phase' = 3
            /\ decoded' = decoded
            /\ output_queue' = output_queue
            /\ input_queue' = input_queue
            /\ work' = work]_vars

\* The worker has stopped after having run, with results polled while it ran and
\* an item left behind in the input queue.
C34_Witness ==
    /\ Phase = 3
    /\ polled # <<>>
    /\ input_queue # <<>>
    /\ Len(decoded) >= 2

\* The routing metadata of a work item or of a processed chunk.
Routing(x) ==
    [store_id |-> x.store_id, channel_source |-> x.channel_source,
     msg_will_add_new_store |-> x.msg_will_add_new_store]

\* C35: every processed chunk in the output queue, held by a poll or returned by a
\* poll carries the routing metadata of the work item submitted under its id, and
\* that item decodes.
C35_ResultCarriesItemRouting ==
    \A i \in 1..Len(polled \o chunks \o output_queue) :
        LET c == (polled \o chunks \o output_queue)[i] IN
            /\ c.id \in 1..Len(items)
            /\ Routing(c) = Routing(items[c.id])
            /\ ProcessArrowMsg(items[c.id])

\* Two results with different routing metadata were returned, each with the
\* metadata of its own item.
C35_Witness ==
    /\ Len(polled) = 2
    /\ Routing(polled[1]) # Routing(polled[2])
    /\ Routing(polled[1]) = Routing(items[polled[1].id])
    /\ Routing(polled[2]) = Routing(items[polled[2].id])

\* C36: get_or_determine returns the stored result without recomputing exactly when
\* an entry is stored under the view id whose key (recording generation, space
\* origin, class identifier, subscriber fingerprint) equals the current key, and
\* otherwise recomputes and replaces the entry of that view; after every call of
\* get_or_determine, remove and clear the cache holds at most one entry per view
\* id, and the value of each entry is one computed from arguments that give its key.
C36_HitIffKeyEqual ==
    [][/\ vis_ret'.op = "get_or_determine" =>
            LET r == vis_ret'
                key == from_view(r.view, r.recording, r.maybe)
                stored == {e \in vis_cache : e.view_id = r.view.id /\ e.cache_key = key}
            IN  /\ (~r.computed) <=> (stored # {})
                /\ stored # {} =>
                        /\ \A e \in stored : r.value = e.visualizable_entities
                        /\ vis_cache' = vis_cache
                /\ stored = {} =>
                        /\ r.value = determine_visualizable_entities(r.maybe, r.recording,
                                        r.view.class_identifier, r.view.space_origin)
                        /\ vis_cache' = {e \in vis_cache : e.view_id # r.view.id} \cup
                                {[view_id |-> r.view.id, cache_key |-> key,
                                  visualizable_entities |-> r.value]}
       /\ \A e1 \in vis_cache', e2 \in vis_cache' : e1.view_id = e2.view_id => e1 = e2
       /\ \A e \in vis_cache' :
            \E m \in MaybeVisualizable :
                /\ e.cache_key.subscriber_fingerprint = subscriber_fingerprint(m)
                /\ e.visualizable_entities =
                        determine_visualizable_entities(m, e.cache_key.recording_generation,
                            e.cache_key.class_identifier, e.cache_key.space_origin)]_vars

\* A call hit the entry of one of two cached views, and what it returned was
\* computed for another set of entities with the same fingerprint.
C36_Witness ==
    /\ vis_ret.op = "get_or_determine"
    /\ ~vis_ret.computed
    /\ Cardinality(vis_cache) = 2
    /\ vis_ret.value.of # vis_ret.maybe
    /\ vis_ret.value.at = vis_ret.recording

\* C37: between two consecutive clears of the annotation map cache (begin_frame,
\* purge_memory, or store events of which one touches an annotation context) a get
\* loads only for a query that no get has asked for since the last clear, and every
\* later get of that query returns the same shared map without loading; the first
\* get of any query after a clear loads a new map.
C37_OneLoadPerQueryBetweenClears ==
    [][/\ ann_ret'.op = "get" =>
            LET q == ann_ret'.query
                given == {e \in ann_given : e.query = q}
            IN  /\ given # {} =>
                    /\ ~ann_ret'.loaded
                    /\ \A e \in given : ann_ret'.arc = e.arc
                    /\ ann_arcs' = ann_arcs
                /\ given = {} =>
                    /\ ann_ret'.loaded
                    /\ ann_ret'.arc = ann_arcs + 1
                    /\ ann_arcs' = ann_arcs + 1
                    /\ \A e \in ann_given : e.arc # ann_ret'.arc
       /\ ann_ret'.op \in {"begin_frame", "purge_memory"} => ann_given' = NoArcs
       /\ (ann_ret'.op = "on_store_events" /\ "AnnotationContext" \in ann_ret'.events)
            => ann_given' = NoArcs
       /\ (ann_ret'.op = "on_store_events" /\ "AnnotationContext" \notin ann_ret'.events)
            => ann_given' = ann_given /\ ann_cached' = ann_cached]_vars

\* A get returned the map that an earlier get of its query loaded, after a clear had
\* made the cache load that query again and with another query cached beside it.
C37_Witness ==
    /\ ann_ret.op = "get"
    /\ ~ann_ret.loaded
    /\ ann_ret.arc = 3
    /\ ann_arcs = 3
    /\ \E e \in ann_given : e.query # ann_ret.query /\ e.arc = 2

\* C38: while the panel is paused or not enabled, begin_frame and end_frame change
\* nothing (total_frames, frame_times, frame_start and the collected metrics stay,
\* and the counters are not taken); on an enabled panel that is not paused, and so
\* after a resume too, begin_frame adds no frame and the end_frame that completes
\* the pair adds exactly one.
C38_PausedOrDisabledIgnoresFrames ==
    [][/\ (panel_op' \in {"begin_frame", "end_frame"} /\ (~panel.enabled \/ panel.paused))
            => (panel' = panel /\ perf_atomics' = perf_atomics)
       /\ (panel_op' = "begin_frame" /\ panel.enabled /\ ~panel.paused)
            => /\ panel'.total_frames = panel.total_frames
               /\ panel'.frame_times = panel.frame_times
               /\ panel'.frame_start
       /\ (panel_op' = "end_frame" /\ panel.enabled /\ ~panel.paused /\ panel_hist.pending)
            => /\ panel'.total_frames = panel.total_frames + 1
               /\ panel_hist'.pairs_done = panel_hist.pairs_done + 1
               /\ ~panel'.frame_start
               /\ panel'.frame_times # <<>>
               /\ panel'.frame_times[Len(panel'.frame_times)] = panel.total_frames + 1
               /\ \A i \in 1..(Len(panel'.frame_times) - 1) :
                    panel'.frame_times[i] <= panel.total_frames]_vars

\* A pair of begin_frame and end_frame has just added the third frame, on a panel
\* that ignored calls while it was paused or hidden.
C38_Witness ==
    /\ panel_op = "end_frame"
    /\ panel.enabled
    /\ ~panel.paused
    /\ panel_hist.ignored
    /\ ~panel_hist.pending
    /\ panel.total_frames = 3
    /\ panel.frame_times = <<1, 2, 3>>
    /\ panel.metrics = 1

\* C39: after any sequence of begin_frame, end_frame and reset, frame_times holds
\* the most recent frames only, its length is min(total_frames, WINDOW_SIZE), and
\* total_frames is the number of pairs of begin_frame and end_frame completed since
\* the last reset; an end_frame with no begin_frame pending records nothing.
C39_WindowOfMostRecentFrames ==
    [][/\ Len(panel'.frame_times) =
            (IF panel'.total_frames < WINDOW_SIZE THEN panel'.total_frames ELSE WINDOW_SIZE)
       /\ \A i \in 1..Len(panel'.frame_times) :
            panel'.frame_times[i] = panel'.total_frames - Len(panel'.frame_times) + i
       /\ panel'.total_frames = panel_hist'.pairs_done
       /\ (panel_op' = "end_frame" /\ ~panel_hist.pending)
            => (panel' = panel /\ perf_atomics' = perf_atomics)
       /\ panel_op' = "reset" => (panel'.total_frames = 0 /\ panel'.frame_times = <<>>)]_vars

\* The window is full and has dropped its oldest frame: 61 frames since the last
\* reset, of which the last 60 are held.
C39_Witness ==
    /\ panel.total_frames = WINDOW_SIZE + 1
    /\ Len(panel.frame_times) = WINDOW_SIZE
    /\ panel.frame_times[1] = 2
    /\ panel_op = "end_frame"

\* The Receiver is inside the callback of f's Flush envelope, which has not returned.
InCallback(f) == receiver.calling = f

\* C31: a callback that the Receiver invokes always returns. While the flushing
\* thread waits in recv_timeout the hand-off can complete; once that thread has
\* timed out and dropped its rx end, tx.send can return at once; and however the
\* callback and the timeout interleave, the Receiver leaves the callback.
C31_CallbackNeverBlocksForever ==
    /\ [](\A f \in Flushers :
            (InCallback(f) /\ oneshot[f].tx = "sending" /\ flusher[f].pc = "waiting")
                => ENABLED HandoffRecvOk(f))
    /\ [](\A f \in Flushers :
            (InCallback(f) /\ oneshot[f].tx = "sending" /\ ~oneshot[f].rx)
                => (flusher[f].ret = "Timeout" /\ ENABLED CallbackSendErr))
    /\ [](\A f \in Flushers :
            (InCallback(f) /\ oneshot[f].tx = "taken") => flusher[f].ret = "Ok")
    /\ \A f \in Flushers : InCallback(f) ~> ~InCallback(f)

\* The Receiver is inside the callback of a thread that has already timed out and
\* dropped its rx end, while the other thread still waits for its own callback.
C31_Witness ==
    /\ InCallback(1)
    /\ oneshot[1].tx = "sending"
    /\ ~oneshot[1].rx
    /\ flusher[1].ret = "Timeout"
    /\ flusher[2].pc = "waiting"
    /\ flush_queue = <<2>>

====
